---- MODULE Spec2Model ----
(***************************************************************************)
(* Model of the input sanitization and validation library                  *)
(* (src/lib/security/sanitize.ts, carried in src/README.md lines 228-435)  *)
(* and of the calls made on it, alone, in runs, and by the route handlers   *)
(* add-career (src/unnamed/part_000) and update-career                     *)
(* (src/src/app/api/update-career/route.tsx).                              *)
(*                                                                         *)
(* A JavaScript string is a sequence of one-character strings; the NUL    *)
(* character is the token "NUL", the grave accent the token "GRAVE".  A      *)
(* JavaScript value is a tagged record.                                    *)
(***************************************************************************)
EXTENDS Integers, Sequences, FiniteSets, TLC

\* op: the library function called; arg: its argument; fields: its htmlFields
\* argument (sanitizeObject); pc: "called" until the function has returned, then
\* "returned"; ret: what it returned; chained: whether arg is the value the
\* previous call of the same function returned
VARIABLES op, arg, fields, pc, ret, chained

\* a run of several calls one after the other: log, for each call made so far,
\* what it returned the first time and how often it was made; lastIndex: the
\* lastIndex properties of the pattern objects the latest detectXSS call tested;
\* count: the number of calls made
VARIABLES log, lastIndex, count

\* the two request handlers and the database: requests, for each HTTP request,
\* the route it came in on, its body, the await it stands at, its local
\* constants and its response; careers: the documents of the "careers"
\* collection; console: what each request wrote with console.warn and
\* console.error; writes: the write operations each request issued
VARIABLES requests, careers, console, writes

vars == <<op, arg, fields, pc, ret, chained, log, lastIndex, count,
          requests, careers, console, writes>>

runVars == <<log, lastIndex, count>>

handlerVars == <<requests, careers, console, writes>>

callVars == <<op, arg, fields, pc, ret, chained>>

(***************************************************************************)
(* Bounds of the model.                                                    *)
(***************************************************************************)
\* longest string enumerated character by character
MaxLen == 3
\* deepest nesting of the structured values handed to sanitizeObject
MaxDepth == 2
\* most pieces an HTML input is put together from
MaxPieces == 3
\* most calls in a run of calls
MaxCalls == 3

(***************************************************************************)
(* Characters.                                                             *)
(***************************************************************************)
NUL == "NUL"
\* the grave accent (backtick) character
Grave == "GRAVE"

UpperCase == <<"A", "B", "C", "D", "E", "F", "G", "H", "I", "J", "K", "L", "M",
               "N", "O", "P", "Q", "R", "S", "T", "U", "V", "W", "X", "Y", "Z">>

LowerCase == <<"a", "b", "c", "d", "e", "f", "g", "h", "i", "j", "k", "l", "m",
               "n", "o", "p", "q", "r", "s", "t", "u", "v", "w", "x", "y", "z">>

Digits == {"0", "1", "2", "3", "4", "5", "6", "7", "8", "9"}

Range(s) == {s[i] : i \in 1..Len(s)}

IsUpper(c) == c \in Range(UpperCase)

IsLetter(c) == c \in Range(UpperCase) \cup Range(LowerCase)

\* \w of a JavaScript regular expression
IsWordChar(c) == IsLetter(c) \/ c \in Digits \/ c = "_"

\* the characters String.prototype.trim removes and \s matches
WhiteSpace == {" ", "\t", "\n", "\r"}

toLowerChar(c) ==
    IF IsUpper(c) THEN LowerCase[CHOOSE i \in 1..Len(UpperCase) : UpperCase[i] = c] ELSE c

\* String.prototype.toLowerCase
toLowerCase(s) == [i \in 1..Len(s) |-> toLowerChar(s[i])]

\* String.prototype.startsWith
startsWith(s, p) == Len(p) <= Len(s) /\ SubSeq(s, 1, Len(p)) = p

\* String.prototype.includes / indexOf(...) >= 0
includes(s, p) == \E i \in 1..(Len(s) - Len(p) + 1) : SubSeq(s, i, i + Len(p) - 1) = p

\* String.prototype.trim
RECURSIVE trimStart(_)
trimStart(s) ==
    IF s # <<>> /\ Head(s) \in WhiteSpace THEN trimStart(Tail(s)) ELSE s

RECURSIVE trimEnd(_)
trimEnd(s) ==
    IF s # <<>> /\ s[Len(s)] \in WhiteSpace THEN trimEnd(SubSeq(s, 1, Len(s) - 1)) ELSE s

trim(s) == trimEnd(trimStart(s))

\* str.replace(/c/g, r) for a one-character pattern c
RECURSIVE replaceAll(_, _, _)
replaceAll(s, c, r) ==
    IF s = <<>> THEN <<>>
    ELSE (IF Head(s) = c THEN r ELSE <<Head(s)>>) \o replaceAll(Tail(s), c, r)

\* index of the first occurrence of character c in s at or after position i, 0 if none
RECURSIVE indexOfChar(_, _, _)
indexOfChar(s, c, i) ==
    IF i > Len(s) THEN 0
    ELSE IF s[i] = c THEN i
    ELSE indexOfChar(s, c, i + 1)

(***************************************************************************)
(* JavaScript values.                                                      *)
(***************************************************************************)
Null == [t |-> "null"]
Undefined == [t |-> "undefined"]
\* an object property that is not there
Absent == [t |-> "absent"]
\* a raised TypeError, as the outcome of a call
TypeError == [t |-> "TypeError"]
Num(n) == [t |-> "number", n |-> n]
Bool(b) == [t |-> "boolean", b |-> b]
Str(s) == [t |-> "string", s |-> s]
Arr(a) == [t |-> "array", a |-> a]
Obj(o) == [t |-> "object", o |-> o]

\* the typeof operator
typeof(v) == IF v.t \in {"null", "array"} THEN "object" ELSE v.t

\* ToBoolean: what !v negates
truthy(v) ==
    CASE v.t = "null" -> FALSE
      [] v.t = "undefined" -> FALSE
      [] v.t = "number" -> v.n # 0
      [] v.t = "boolean" -> v.b
      [] v.t = "string" -> v.s # <<>>
      [] OTHER -> TRUE

(***************************************************************************)
(* sanitizeText.                                                           *)
(***************************************************************************)
\* text.replace(/<[^>]*>/g, ''): the leftmost "<" starts a match that runs to the
\* first ">" after it; with no ">" left nothing more matches
RECURSIVE stripTags(_)
stripTags(s) ==
    LET lt == indexOfChar(s, "<", 1)
        gt == IF lt = 0 THEN 0 ELSE indexOfChar(s, ">", lt + 1)
    IN  IF lt = 0 \/ gt = 0 THEN s
        ELSE SubSeq(s, 1, lt - 1) \o stripTags(SubSeq(s, gt + 1, Len(s)))

\* validator.escape leaving "&" as it is
validatorEscape_keepAmpersand(s) ==
    LET s2 == replaceAll(s, "\"", <<"&", "q", "u", "o", "t", ";">>)
        s3 == replaceAll(s2, "'", <<"&", "#", "x", "2", "7", ";">>)
        s4 == replaceAll(s3, "<", <<"&", "l", "t", ";">>)
        s5 == replaceAll(s4, ">", <<"&", "g", "t", ";">>)
        s6 == replaceAll(s5, "/", <<"&", "#", "x", "2", "F", ";">>)
        s7 == replaceAll(s6, "\\", <<"&", "#", "x", "5", "C", ";">>)
    IN  replaceAll(s7, Grave, <<"&", "#", "9", "6", ";">>)

\* validator.escape (validator.js lib/escape.js): eight global replacements made one
\* after the other, "&" first:
\*   str.replace(/&/g, '&amp;').replace(/"/g, '&quot;').replace(/'/g, '&#x27;')
\*      .replace(/</g, '&lt;').replace(/>/g, '&gt;').replace(/\//g, '&#x2F;')
\*      .replace(/\\/g, '&#x5C;').replace(/`/g, '&#96;')
validatorEscape(s) ==
    LET s1 == replaceAll(s, "&", <<"&", "a", "m", "p", ";">>)
        s2 == replaceAll(s1, "\"", <<"&", "q", "u", "o", "t", ";">>)
        s3 == replaceAll(s2, "'", <<"&", "#", "x", "2", "7", ";">>)
        s4 == replaceAll(s3, "<", <<"&", "l", "t", ";">>)
        s5 == replaceAll(s4, ">", <<"&", "g", "t", ";">>)
        s6 == replaceAll(s5, "/", <<"&", "#", "x", "2", "F", ";">>)
        s7 == replaceAll(s6, "\\", <<"&", "#", "x", "5", "C", ";">>)
    IN  replaceAll(s7, Grave, <<"&", "#", "9", "6", ";">>)

\* sanitized.replace(/\0/g, '')
removeNullBytes(s) == replaceAll(s, NUL, <<>>)

\* sanitizeText without the escaping step
sanitizeText_noEscape(text) ==
    IF ~truthy(text) \/ typeof(text) # "string" THEN Str(<<>>)
    ELSE Str(trim(removeNullBytes(stripTags(text.s))))

\* sanitizeText trimming before it removes the null bytes
sanitizeText_trimFirst(text) ==
    IF ~truthy(text) \/ typeof(text) # "string" THEN Str(<<>>)
    ELSE Str(removeNullBytes(trim(validatorEscape(stripTags(text.s)))))

\* sanitizeText without the typeof test: String.prototype.replace is called on
\* whatever truthy value came in
sanitizeText_noTypeGuard(text) ==
    IF ~truthy(text) THEN Str(<<>>)
    ELSE IF typeof(text) # "string" THEN TypeError
    ELSE Str(trim(removeNullBytes(validatorEscape(stripTags(text.s)))))

sanitizeText(text) ==
    IF ~truthy(text) \/ typeof(text) # "string" THEN Str(<<>>)
    ELSE Str(trim(removeNullBytes(validatorEscape(stripTags(text.s)))))

(***************************************************************************)
(* sanitizeURL.                                                            *)
(***************************************************************************)
\* String.prototype.indexOf, counted from 1; 0 when p does not occur
indexOf(s, p) ==
    IF includes(s, p)
    THEN CHOOSE i \in 1..(Len(s) - Len(p) + 1) :
            /\ SubSeq(s, i, i + Len(p) - 1) = p
            /\ \A j \in 1..(i - 1) : SubSeq(s, j, j + Len(p) - 1) # p
    ELSE 0

\* String.prototype.split with a non-empty string separator
RECURSIVE split(_, _)
split(s, sep) ==
    LET i == indexOf(s, sep)
    IN  IF i = 0 THEN <<s>>
        ELSE <<SubSeq(s, 1, i - 1)>> \o split(SubSeq(s, i + Len(sep), Len(s)), sep)

\* Array.prototype.join
RECURSIVE join(_, _)
join(parts, sep) ==
    IF parts = <<>> THEN <<>>
    ELSE IF Len(parts) = 1 THEN parts[1]
    ELSE parts[1] \o sep \o join(Tail(parts), sep)

isDigits(s) == s # <<>> /\ \A i \in 1..Len(s) : s[i] \in Digits

digitValue(c) == CHOOSE n \in 0..9 : <<"0", "1", "2", "3", "4", "5", "6", "7", "8", "9">>[n + 1] = c

\* parseInt(s, 10) of a string of digits
RECURSIVE parseInt(_)
parseInt(s) ==
    IF s = <<>> THEN 0 ELSE 10 * parseInt(SubSeq(s, 1, Len(s) - 1)) + digitValue(s[Len(s)])

\* validator.isIP, version 4 form: four decimal groups 0..255 without leading zeros
isIP(host) ==
    LET parts == split(host, <<".">>)
    IN  /\ Len(parts) = 4
        /\ \A i \in 1..4 :
              /\ isDigits(parts[i])
              /\ Len(parts[i]) <= 3
              /\ (Len(parts[i]) > 1 => parts[i][1] # "0")
              /\ parseInt(parts[i]) <= 255

\* validator.isFQDN under its default options (require_tld, no underscores, no
\* trailing dot, no numeric top-level domain), on ASCII
isFQDN(str) ==
    LET parts == split(str, <<".">>)
        tld == parts[Len(parts)]
        alphaTld == Len(tld) >= 2 /\ \A i \in 1..Len(tld) : IsLetter(tld[i])
        xnTld == /\ Len(tld) >= 4
                 /\ toLowerCase(SubSeq(tld, 1, 2)) = <<"x", "n">>
                 /\ \A i \in 3..Len(tld) : IsLetter(tld[i]) \/ tld[i] \in Digits \/ tld[i] = "-"
    IN  /\ Len(parts) >= 2
        /\ alphaTld \/ xnTld
        /\ \A k \in 1..Len(parts) :
              LET part == parts[k]
              IN  /\ part # <<>>
                  /\ Len(part) <= 63
                  /\ \A i \in 1..Len(part) :
                        IsLetter(part[i]) \/ part[i] \in Digits \/ part[i] = "-"
                  /\ part[1] # "-"
                  /\ part[Len(part)] # "-"

\* the user-information part before "@"
authOk(auth) ==
    LET ap == split(auth, <<":">>)
    IN  /\ auth # <<>>
        /\ Len(ap) <= 2
        /\ ~(Len(ap) = 2 /\ ap[1] = <<>> /\ ap[2] = <<>>)

\* host and port of validator.isURL, from the text before the first "/"
hostOk(authority) ==
    LET sa == split(authority, <<"@">>)
        hostname == IF Len(sa) > 1 THEN join(Tail(sa), <<"@">>) ELSE authority
        sh == split(hostname, <<":">>)
        host == sh[1]
        port_str == join(Tail(sh), <<":">>)
    IN  /\ Len(sa) > 1 => authOk(sa[1])
        /\ port_str # <<>> =>
              isDigits(port_str) /\ parseInt(port_str) > 0 /\ parseInt(port_str) <= 65535
        /\ isIP(host) \/ isFQDN(host)

\* validator.isURL(url, {protocols: ['http', 'https'], require_protocol: false})
\* (validator.js lib/isURL.js, remaining options at their defaults); hosts written
\* as a bracketed IPv6 literal are not modelled and are not among the inputs
validatorIsURL(url) ==
    LET noFragment == split(url, <<"#">>)[1]
        noQuery == split(noFragment, <<"?">>)[1]
        sp == split(noQuery, <<":", "/", "/">>)
        protocol == toLowerCase(sp[1])
        rest == IF Len(sp) > 1 THEN join(Tail(sp), <<":", "/", "/">>) ELSE noQuery
    IN  /\ url # <<>>
        /\ \A i \in 1..Len(url) : url[i] \notin WhiteSpace \cup {"<", ">"}
        /\ ~startsWith(url, <<"m", "a", "i", "l", "t", "o", ":">>)
        /\ Len(url) < 2083
        /\ IF Len(sp) > 1
           THEN protocol \in {<<"h", "t", "t", "p">>, <<"h", "t", "t", "p", "s">>}
           ELSE ~startsWith(noQuery, <<"/", "/">>)
        /\ rest # <<>>
        /\ hostOk(split(rest, <<"/">>)[1])

dangerousProtocols ==
    << <<"j", "a", "v", "a", "s", "c", "r", "i", "p", "t", ":">>,
       <<"d", "a", "t", "a", ":">>,
       <<"v", "b", "s", "c", "r", "i", "p", "t", ":">>,
       <<"f", "i", "l", "e", ":">> >>

\* sanitizeURL without the list of dangerous protocols
sanitizeURL_noDenyList(url) ==
    IF ~truthy(url) \/ typeof(url) # "string" THEN Str(<<>>)
    ELSE IF ~validatorIsURL(trim(url.s)) THEN Str(<<>>)
    ELSE Str(trim(url.s))

\* sanitizeURL returning the string as it came in
sanitizeURL_untrimmed(url) ==
    IF ~truthy(url) \/ typeof(url) # "string" THEN Str(<<>>)
    ELSE LET trimmed == trim(url.s)
             lowerUrl == toLowerCase(trimmed)
         IN  IF \E k \in 1..Len(dangerousProtocols) : startsWith(lowerUrl, dangerousProtocols[k])
             THEN Str(<<>>)
             ELSE IF ~validatorIsURL(trimmed) THEN Str(<<>>)
             ELSE url

sanitizeURL(url) ==
    IF ~truthy(url) \/ typeof(url) # "string" THEN Str(<<>>)
    ELSE LET trimmed == trim(url.s)
             lowerUrl == toLowerCase(trimmed)
         IN  IF \E k \in 1..Len(dangerousProtocols) : startsWith(lowerUrl, dangerousProtocols[k])
             THEN Str(<<>>)
             ELSE IF ~validatorIsURL(trimmed) THEN Str(<<>>)
             ELSE Str(trimmed)

(***************************************************************************)
(* detectXSS.                                                              *)
(***************************************************************************)
\* the characters "." of a regular expression does not match
LineTerminators == {"\n", "\r"}

\* /<script[^>]*>.*?<\/script>/gi
matchesScriptPair(s) ==
    LET low == toLowerCase(s)
    IN  \E i \in 1..Len(s) :
           /\ startsWith(SubSeq(low, i, Len(s)), <<"<", "s", "c", "r", "i", "p", "t">>)
           /\ LET gt == indexOfChar(s, ">", i + 7)
              IN  /\ gt # 0
                  /\ \E j \in (gt + 1)..Len(s) :
                        /\ startsWith(SubSeq(low, j, Len(s)),
                                      <<"<", "/", "s", "c", "r", "i", "p", "t", ">">>)
                        /\ \A m \in (gt + 1)..(j - 1) : s[m] \notin LineTerminators

\* /on\w+\s*=/gi
matchesEventHandler(s) ==
    LET low == toLowerCase(s)
    IN  \E i \in 1..(Len(s) - 1) :
           /\ SubSeq(low, i, i + 1) = <<"o", "n">>
           /\ \E m \in (i + 2)..Len(s) :
                 /\ \A k \in (i + 2)..m : IsWordChar(s[k])
                 /\ \E e \in (m + 1)..Len(s) :
                       /\ s[e] = "="
                       /\ \A k \in (m + 1)..(e - 1) : s[k] \in WhiteSpace

\* /javascript:/gi, /<iframe/gi, /eval\(/gi, /expression\(/gi, /<embed/gi, /<object/gi
literalPatterns ==
    { <<"j", "a", "v", "a", "s", "c", "r", "i", "p", "t", ":">>,
      <<"<", "i", "f", "r", "a", "m", "e">>,
      <<"e", "v", "a", "l", "(">>,
      <<"e", "x", "p", "r", "e", "s", "s", "i", "o", "n", "(">>,
      <<"<", "e", "m", "b", "e", "d">>,
      <<"<", "o", "b", "j", "e", "c", "t">> }

\* detectXSS without the pattern for event handlers
detectXSS_noHandlerPattern(text) ==
    IF ~truthy(text) \/ typeof(text) # "string" THEN Bool(FALSE)
    ELSE Bool(\/ matchesScriptPair(text.s)
              \/ \E p \in literalPatterns : includes(toLowerCase(text.s), p))

\* the patterns are regular-expression literals evaluated anew in every call, so
\* no lastIndex is carried from one call to the next
detectXSS(text) ==
    IF ~truthy(text) \/ typeof(text) # "string" THEN Bool(FALSE)
    ELSE Bool(\/ matchesScriptPair(text.s)
              \/ matchesEventHandler(text.s)
              \/ \E p \in literalPatterns : includes(toLowerCase(text.s), p))

(***************************************************************************)
(* sanitizeHTML.                                                           *)
(*                                                                         *)
(* DOMPurify.sanitize(html, config) parses the string as an HTML body,     *)
(* filters the tree against the configuration and returns the body's       *)
(* serialization.  The model makes the three steps in one pass over the    *)
(* string: the tokenizer of the HTML standard (data, tag, attribute and    *)
(* comment states), the tree construction rules "in body" for paragraphs,  *)
(* headings, lists, pre, blockquote, void, raw-text and ordinary elements, *)
(* and DOMPurify's filter (ALLOWED_TAGS, ALLOWED_ATTR, KEEP_CONTENT with   *)
(* its FORBID_CONTENTS list, removal of comments).  Tables, select, forms, *)
(* foreign (svg, math) content and the re-opening of mis-nested formatting *)
(* elements follow the rule for ordinary elements here.                    *)
(***************************************************************************)
\* config.ALLOWED_TAGS
ALLOWED_TAGS ==
    { <<"p">>, <<"b", "r">>, <<"s", "t", "r", "o", "n", "g">>, <<"e", "m">>, <<"u">>,
      <<"h", "1">>, <<"h", "2">>, <<"h", "3">>, <<"h", "4">>, <<"h", "5">>, <<"h", "6">>,
      <<"u", "l">>, <<"o", "l">>, <<"l", "i">>, <<"a">>,
      <<"b", "l", "o", "c", "k", "q", "u", "o", "t", "e">>,
      <<"c", "o", "d", "e">>, <<"p", "r", "e">> }

\* config.ALLOWED_ATTR
ALLOWED_ATTR == { <<"h", "r", "e", "f">>, <<"t", "a", "r", "g", "e", "t">>, <<"r", "e", "l">> }

Headings == { <<"h", "1">>, <<"h", "2">>, <<"h", "3">>, <<"h", "4">>, <<"h", "5">>, <<"h", "6">> }

\* elements whose text the tokenizer reads raw up to their end tag
RawTextTags ==
    { <<"s", "c", "r", "i", "p", "t">>, <<"s", "t", "y", "l", "e">>, <<"x", "m", "p">>,
      <<"i", "f", "r", "a", "m", "e">>, <<"n", "o", "e", "m", "b", "e", "d">>,
      <<"n", "o", "f", "r", "a", "m", "e", "s">>, <<"t", "i", "t", "l", "e">>,
      <<"t", "e", "x", "t", "a", "r", "e", "a">> }

\* DOMPurify's FORBID_CONTENTS: elements removed together with what they contain
FORBID_CONTENTS ==
    (RawTextTags \ { <<"t", "e", "x", "t", "a", "r", "e", "a">> }) \cup
    { <<"a", "u", "d", "i", "o">>, <<"v", "i", "d", "e", "o">>, <<"s", "v", "g">>,
      <<"m", "a", "t", "h">>, <<"n", "o", "s", "c", "r", "i", "p", "t">>,
      <<"t", "e", "m", "p", "l", "a", "t", "e">>, <<"p", "l", "a", "i", "n", "t", "e", "x", "t">> }

VoidTags ==
    { <<"b", "r">>, <<"i", "m", "g">>, <<"h", "r">>, <<"i", "n", "p", "u", "t">>,
      <<"e", "m", "b", "e", "d">>, <<"m", "e", "t", "a">>, <<"l", "i", "n", "k">>,
      <<"b", "a", "s", "e">>, <<"a", "r", "e", "a">>, <<"w", "b", "r">>,
      <<"s", "o", "u", "r", "c", "e">>, <<"t", "r", "a", "c", "k">> }

\* start and end tags the "in body" rules ignore
IgnoredTags == { <<"h", "t", "m", "l">>, <<"h", "e", "a", "d">>, <<"b", "o", "d", "y">> }

\* block elements: their start tag closes an open p, their end tag looks for its
\* element in scope
BlockTags ==
    Headings \cup
    { <<"p">>, <<"u", "l">>, <<"o", "l">>, <<"l", "i">>, <<"p", "r", "e">>,
      <<"b", "l", "o", "c", "k", "q", "u", "o", "t", "e">>, <<"d", "i", "v">>,
      <<"s", "e", "c", "t", "i", "o", "n">>, <<"a", "r", "t", "i", "c", "l", "e">>,
      <<"h", "r">> }

\* elements that bound a scope of the stack of open elements
ScopeMarkers ==
    { <<"o", "b", "j", "e", "c", "t">>, <<"m", "a", "r", "q", "u", "e", "e">>,
      <<"t", "a", "b", "l", "e">>, <<"t", "d">>, <<"t", "h">>,
      <<"b", "u", "t", "t", "o", "n">>, <<"t", "e", "m", "p", "l", "a", "t", "e">> }

\* the "special" category of the HTML standard, as far as the model knows elements
SpecialTags == BlockTags \cup ScopeMarkers \cup VoidTags \cup RawTextTags

EofInTag == [ok |-> FALSE, next |-> 0, attrs |-> <<>>]

addAttr(attrs, name, value) ==
    IF \E k \in 1..Len(attrs) : attrs[k].name = name THEN attrs
    ELSE Append(attrs, [name |-> name, value |-> value])

\* first position at or after i whose character is in set, Len(s) + 1 if none
RECURSIVE scanTo(_, _, _)
scanTo(s, i, set) ==
    IF i > Len(s) \/ s[i] \in set THEN i ELSE scanTo(s, i + 1, set)

RECURSIVE skipSpace(_, _)
skipSpace(s, i) ==
    IF i <= Len(s) /\ s[i] \in WhiteSpace THEN skipSpace(s, i + 1) ELSE i

\* a character reference at position i of s (s[i] = "&"): the character it stands
\* for and its length; the references are those of the characters the sanitizers
\* and the serializer write
charRefs ==
    { [ref |-> <<"a", "m", "p", ";">>, ch |-> "&"], [ref |-> <<"a", "m", "p">>, ch |-> "&"],
      [ref |-> <<"l", "t", ";">>, ch |-> "<"], [ref |-> <<"l", "t">>, ch |-> "<"],
      [ref |-> <<"g", "t", ";">>, ch |-> ">"], [ref |-> <<"g", "t">>, ch |-> ">"],
      [ref |-> <<"q", "u", "o", "t", ";">>, ch |-> "\""], [ref |-> <<"q", "u", "o", "t">>, ch |-> "\""],
      [ref |-> <<"#", "x", "2", "7", ";">>, ch |-> "'"], [ref |-> <<"#", "3", "9", ";">>, ch |-> "'"],
      [ref |-> <<"#", "x", "2", "F", ";">>, ch |-> "/"], [ref |-> <<"#", "x", "5", "C", ";">>, ch |-> "\\"],
      [ref |-> <<"#", "9", "6", ";">>, ch |-> Grave] }

\* a parser that decodes no character reference
charRefAt_noReferences(s, i) == [ch |-> "&", len |-> 1]

charRefAt(s, i) ==
    LET hits == {r \in charRefs : startsWith(SubSeq(s, i + 1, Len(s)), r.ref)}
    IN  IF hits = {} THEN [ch |-> "&", len |-> 1]
        ELSE LET r == CHOOSE r \in hits : \A q \in hits : Len(q.ref) <= Len(r.ref)
             IN  [ch |-> r.ch, len |-> 1 + Len(r.ref)]

\* the text of s with its character references replaced
RECURSIVE decodeRefs(_, _)
decodeRefs(s, i) ==
    IF i > Len(s) THEN <<>>
    ELSE IF s[i] = "&"
         THEN <<charRefAt(s, i).ch>> \o decodeRefs(s, i + charRefAt(s, i).len)
         ELSE <<s[i]>> \o decodeRefs(s, i + 1)

\* the tokenizer's attribute states, from position i inside a tag of s: the
\* attributes read and the position after the closing ">", or EofInTag when the
\* string ends inside the tag (the tag is then dropped)
RECURSIVE beforeAttrName(_, _, _)
beforeAttrName(s, i, attrs) ==
    IF i > Len(s) THEN EofInTag
    ELSE IF s[i] \in WhiteSpace \/ s[i] = "/" THEN beforeAttrName(s, i + 1, attrs)
    ELSE IF s[i] = ">" THEN [ok |-> TRUE, next |-> i + 1, attrs |-> attrs]
    ELSE LET e == scanTo(s, i + 1, WhiteSpace \cup {"/", ">", "="})
             name == toLowerCase(SubSeq(s, i, e - 1))
             a == skipSpace(s, e)
         IN  IF a > Len(s) THEN EofInTag
             ELSE IF s[a] # "=" THEN beforeAttrName(s, a, addAttr(attrs, name, <<>>))
             ELSE LET v == skipSpace(s, a + 1)
                  IN  IF v > Len(s) THEN EofInTag
                      ELSE IF s[v] = ">"
                           THEN [ok |-> TRUE, next |-> v + 1, attrs |-> addAttr(attrs, name, <<>>)]
                      ELSE IF s[v] \in {"\"", "'"}
                           THEN LET q == indexOfChar(s, s[v], v + 1)
                                IN  IF q = 0 THEN EofInTag
                                    ELSE beforeAttrName(s, q + 1,
                                            addAttr(attrs, name, decodeRefs(SubSeq(s, v + 1, q - 1), 1)))
                      ELSE LET u == scanTo(s, v, WhiteSpace \cup {">"})
                           IN  IF u > Len(s) THEN EofInTag
                               ELSE beforeAttrName(s, u,
                                       addAttr(attrs, name, decodeRefs(SubSeq(s, v, u - 1), 1)))

\* DOMPurify's IS_ALLOWED_URI, applied to the value without its white space:
\* /^(?:(?:(?:f|ht)tps?|mailto|tel|callto|sms|cid|xmpp|matrix):|[^a-z]|[a-z+.\-]+(?:[^a-z+.\-:]|$))/i
allowedSchemes ==
    { <<"h", "t", "t", "p", ":">>, <<"h", "t", "t", "p", "s", ":">>, <<"f", "t", "p", ":">>,
      <<"f", "t", "p", "s", ":">>, <<"m", "a", "i", "l", "t", "o", ":">>, <<"t", "e", "l", ":">>,
      <<"c", "a", "l", "l", "t", "o", ":">>, <<"s", "m", "s", ":">>, <<"c", "i", "d", ":">>,
      <<"x", "m", "p", "p", ":">>, <<"m", "a", "t", "r", "i", "x", ":">> }

isAllowedURI(value) ==
    LET v == SelectSeq(value, LAMBDA c : c \notin WhiteSpace \cup {NUL})
        scheme(c) == IsLetter(c) \/ c \in {"+", ".", "-"}
        n == scanTo(v, 1, {c \in Range(v) : ~scheme(c)}) - 1
    IN  \/ \E sch \in allowedSchemes : startsWith(toLowerCase(v), sch)
        \/ v # <<>> /\ ~IsLetter(v[1])
        \/ n >= 1 /\ (n = Len(v) \/ v[n + 1] # ":")

\* /^aria-[\-\w]+$/
isAriaAttr(name) ==
    /\ Len(name) > 5
    /\ SubSeq(name, 1, 5) = <<"a", "r", "i", "a", "-">>
    /\ \A i \in 6..Len(name) : IsWordChar(name[i]) \/ name[i] = "-"

\* DOMPurify's attribute test letting every attribute through
isValidAttribute_everyAttribute(name, value) == TRUE

\* DOMPurify's _isValidAttribute under the configuration (ALLOW_DATA_ATTR false,
\* ALLOW_ARIA_ATTR at its default true)
isValidAttribute(name, value) ==
    \/ isAriaAttr(name)
    \/ name \in ALLOWED_ATTR /\ (isAllowedURI(value) \/ value = <<>>)

\* an attribute in the serialization
serializeAttr(a) ==
    <<" ">> \o a.name \o <<"=", "\"">>
        \o replaceAll(replaceAll(trim(a.value), "&", <<"&", "a", "m", "p", ";">>),
                      "\"", <<"&", "q", "u", "o", "t", ";">>)
        \o <<"\"">>

RECURSIVE serializeAttrs(_)
serializeAttrs(attrs) ==
    IF attrs = <<>> THEN <<>>
    ELSE (IF isValidAttribute(attrs[1].name, trim(attrs[1].value))
          THEN serializeAttr(attrs[1]) ELSE <<>>) \o serializeAttrs(Tail(attrs))

\* a text character in the serialization
escapeTextChar(c) ==
    CASE c = "&" -> <<"&", "a", "m", "p", ";">>
      [] c = "<" -> <<"&", "l", "t", ";">>
      [] c = ">" -> <<"&", "g", "t", ";">>
      [] OTHER -> <<c>>

\* KEEP_CONTENT without the FORBID_CONTENTS list
textVisible_noForbidContents(stack) == TRUE

\* whether text at the top of the stack survives: no open element is removed with
\* its content
textVisible(stack) == \A m \in 1..Len(stack) : stack[m] \notin FORBID_CONTENTS

\* whether the element at position j of the stack is kept
elementVisible(stack, j) ==
    stack[j] \in ALLOWED_TAGS /\ textVisible(SubSeq(stack, 1, j - 1))

\* the end tags of the kept elements at positions j down to k of the stack
RECURSIVE endTags(_, _, _)
endTags(stack, j, k) ==
    IF j < k \/ j < 1 THEN <<>>
    ELSE (IF elementVisible(stack, j) THEN <<"<", "/">> \o stack[j] \o <<">">> ELSE <<>>)
         \o endTags(stack, j - 1, k)

\* the topmost element an end tag (or an implied close) for name n addresses: the
\* topmost match with no barrier element above it; 0 when there is none
targetIndex(stack, n, barriers) ==
    LET matches(e) == IF n \in Headings THEN e \in Headings ELSE e = n
        cands == {k \in 1..Len(stack) :
                     /\ matches(stack[k])
                     /\ \A m \in (k + 1)..Len(stack) :
                           ~matches(stack[m]) /\ stack[m] \notin barriers}
    IN  IF cands = {} THEN 0 ELSE CHOOSE k \in cands : TRUE

endTagTarget(stack, n) ==
    targetIndex(stack, n,
                IF n = <<"l", "i">> THEN ScopeMarkers \cup { <<"u", "l">>, <<"o", "l">> }
                ELSE IF n \in BlockTags THEN ScopeMarkers
                ELSE SpecialTags)

\* length of the stack after the closings a start tag for n implies: an open li
\* for li, an open p for a block element, an open heading for a heading
impliedCut(stack, n) ==
    LET li == <<"l", "i">>
        kLi == targetIndex(stack, li,
                           SpecialTags \ { <<"p">>, <<"d", "i", "v">>, li })
        c1 == IF n = li /\ kLi # 0 THEN kLi - 1 ELSE Len(stack)
        kP == targetIndex(SubSeq(stack, 1, c1), <<"p">>, ScopeMarkers)
        c2 == IF n \in BlockTags /\ kP # 0 THEN kP - 1 ELSE c1
    IN  IF n \in Headings /\ c2 > 0 /\ stack[c2] \in Headings THEN c2 - 1 ELSE c2

\* position of the end tag "</name" that closes raw text starting at i, 0 if none
rawTextEnd(s, i, name) ==
    LET closer == <<"<", "/">> \o name
        hits == {j \in i..Len(s) :
                    /\ startsWith(toLowerCase(SubSeq(s, j, Len(s))), closer)
                    /\ j + Len(closer) <= Len(s)
                    /\ s[j + Len(closer)] \in WhiteSpace \cup {"/", ">"}}
    IN  IF hits = {} THEN 0 ELSE CHOOSE j \in hits : \A h \in hits : j <= h

\* position after the comment that opens at i with "<!--"
commentEnd(s, i) ==
    LET body == SubSeq(s, i + 4, Len(s))
        close == indexOf(body, <<"-", "-", ">">>)
    IN  IF startsWith(body, <<">">>) THEN i + 5
        ELSE IF startsWith(body, <<"-", ">">>) THEN i + 6
        ELSE IF close = 0 THEN Len(s) + 1
        ELSE i + 4 + close + 2

RECURSIVE escapeText(_)
escapeText(s) == IF s = <<>> THEN <<>> ELSE escapeTextChar(Head(s)) \o escapeText(Tail(s))

\* the serialization of the filtered tree of s from position i, with the given open
\* elements
RECURSIVE build(_, _, _)
build(s, i, stack) ==
    LET n == Len(s)
        atEnd == endTags(stack, Len(stack), 1)
        text(c, next) == (IF textVisible(stack) THEN escapeTextChar(c) ELSE <<>>)
                         \o build(s, next, stack)
        bogus(from) == LET g == indexOfChar(s, ">", from)
                       IN  IF g = 0 THEN atEnd ELSE build(s, g + 1, stack)
        nameEnd(from) == scanTo(s, from, WhiteSpace \cup {"/", ">"})
        tagName(from) == toLowerCase(SubSeq(s, from, nameEnd(from) - 1))
        startTag ==
            LET name == tagName(i + 1)
                tag == beforeAttrName(s, nameEnd(i + 1), <<>>)
                cut == impliedCut(stack, name)
                st == SubSeq(stack, 1, cut)
                closing == endTags(stack, Len(stack), cut + 1)
                open == IF name \in ALLOWED_TAGS /\ textVisible(st)
                        THEN <<"<">> \o name \o serializeAttrs(tag.attrs) \o <<">">>
                        ELSE <<>>
                after == IF name \in { <<"p", "r", "e">>, <<"t", "e", "x", "t", "a", "r", "e", "a">> }
                            /\ tag.next <= n /\ s[tag.next] = "\n"
                         THEN tag.next + 1 ELSE tag.next
                rawEnd == rawTextEnd(s, after, name)
                rawTag == beforeAttrName(s, rawEnd + 2 + Len(name), <<>>)
                rawText == SubSeq(s, after, IF rawEnd = 0 THEN n ELSE rawEnd - 1)
                rawOut == IF name = <<"t", "e", "x", "t", "a", "r", "e", "a">> /\ textVisible(stack)
                          THEN escapeText(decodeRefs(rawText, 1)) ELSE <<>>
            IN  IF ~tag.ok THEN atEnd
                ELSE IF name \in IgnoredTags THEN build(s, tag.next, stack)
                ELSE IF name = <<"p", "l", "a", "i", "n", "t", "e", "x", "t">> THEN atEnd
                ELSE IF name \in RawTextTags
                     THEN rawOut \o (IF rawEnd = 0 \/ ~rawTag.ok THEN atEnd
                                     ELSE build(s, rawTag.next, stack))
                ELSE IF name \in VoidTags THEN closing \o open \o build(s, tag.next, st)
                ELSE closing \o open \o build(s, after, Append(st, name))
        endTag ==
            LET name == tagName(i + 2)
                tag == beforeAttrName(s, nameEnd(i + 2), <<>>)
                k == endTagTarget(stack, name)
            IN  IF ~tag.ok THEN atEnd
                ELSE IF name \in IgnoredTags THEN build(s, tag.next, stack)
                ELSE IF name = <<"b", "r">>
                     THEN (IF textVisible(stack) THEN <<"<", "b", "r", ">">> ELSE <<>>)
                          \o build(s, tag.next, stack)
                ELSE IF k # 0
                     THEN endTags(stack, Len(stack), k) \o build(s, tag.next, SubSeq(stack, 1, k - 1))
                ELSE IF name = <<"p">>
                     THEN (IF textVisible(stack) THEN <<"<", "p", ">", "<", "/", "p", ">">> ELSE <<>>)
                          \o build(s, tag.next, stack)
                ELSE build(s, tag.next, stack)
    IN  IF i > n THEN atEnd
        ELSE IF s[i] = NUL THEN build(s, i + 1, stack)
        ELSE IF s[i] = "&" THEN text(charRefAt(s, i).ch, i + charRefAt(s, i).len)
        ELSE IF s[i] # "<" THEN text(s[i], i + 1)
        ELSE IF i = n THEN text("<", i + 1)
        ELSE IF IsLetter(s[i + 1]) THEN startTag
        ELSE IF s[i + 1] = "/"
             THEN IF i + 1 = n THEN text("<", i + 1)
                  ELSE IF IsLetter(s[i + 2]) THEN endTag
                  ELSE IF s[i + 2] = ">" THEN build(s, i + 3, stack)
                  ELSE bogus(i + 2)
        ELSE IF s[i + 1] = "!"
             THEN IF startsWith(SubSeq(s, i, n), <<"<", "!", "-", "-">>)
                  THEN build(s, commentEnd(s, i), stack)
                  ELSE bogus(i + 2)
        ELSE IF s[i + 1] = "?" THEN bogus(i + 2)
        ELSE text("<", i + 1)

\* DOMPurify.sanitize of a non-empty string: a string without "<" is returned as
\* it is, unparsed
DOMPurifySanitize(dirty) ==
    IF indexOfChar(dirty, "<", 1) = 0 THEN dirty ELSE build(dirty, 1, <<>>)

sanitizeHTML(html) ==
    IF ~truthy(html) \/ typeof(html) # "string" THEN Str(<<>>)
    ELSE Str(DOMPurifySanitize(html.s))

(***************************************************************************)
(* sanitizeObject.                                                         *)
(*                                                                         *)
(* An object is a function from property names to values, Absent for a     *)
(* name the object does not own.  The htmlFields argument is a record:     *)
(* whether the caller gave it, and the names it holds.                     *)
(***************************************************************************)
ProtoKey == "__proto__"

\* the property names of the model
Keys == {"title", "description", "items", ProtoKey}

\* htmlFields: string[] = []
htmlFieldsOrDefault(htmlFields) == IF htmlFields.given THEN htmlFields.names ELSE {}

\* the own property that sanitized[key] = value leaves on the object literal {}:
\* for the name __proto__ the assignment reaches the setter inherited from
\* Object.prototype, which sets the prototype (or does nothing for a primitive) and
\* creates no own property
assignOwn(key, value) == IF key = ProtoKey THEN Absent ELSE value

\* sanitizeObject handing no htmlFields to its recursive calls
RECURSIVE sanitizeObject_fieldsNotPassedDown(_, _)
sanitizeObject_fieldsNotPassedDown(obj, htmlFields) ==
    IF ~truthy(obj) \/ typeof(obj) # "object" THEN obj
    ELSE IF obj.t = "array"
         THEN Arr([i \in 1..Len(obj.a) |->
                      sanitizeObject_fieldsNotPassedDown(obj.a[i], [given |-> FALSE, names |-> {}])])
    ELSE Obj([key \in DOMAIN obj.o |->
                 LET value == obj.o[key]
                 IN  IF value = Absent THEN Absent
                     ELSE IF value = Null \/ value = Undefined THEN assignOwn(key, value)
                     ELSE IF typeof(value) = "string"
                          THEN IF key \in htmlFieldsOrDefault(htmlFields)
                               THEN assignOwn(key, sanitizeHTML(value))
                               ELSE assignOwn(key, sanitizeText(value))
                     ELSE IF typeof(value) = "object"
                          THEN assignOwn(key, sanitizeObject_fieldsNotPassedDown(value,
                                   [given |-> FALSE, names |-> {}]))
                     ELSE assignOwn(key, value)])

RECURSIVE sanitizeObject(_, _)
sanitizeObject(obj, htmlFields) ==
    IF ~truthy(obj) \/ typeof(obj) # "object" THEN obj
    ELSE IF obj.t = "array"
         THEN Arr([i \in 1..Len(obj.a) |->
                      sanitizeObject(obj.a[i], [given |-> TRUE, names |-> htmlFieldsOrDefault(htmlFields)])])
    ELSE Obj([key \in DOMAIN obj.o |->
                 LET value == obj.o[key]
                 IN  IF value = Absent THEN Absent
                     ELSE IF value = Null \/ value = Undefined THEN assignOwn(key, value)
                     ELSE IF typeof(value) = "string"
                          THEN IF key \in htmlFieldsOrDefault(htmlFields)
                               THEN assignOwn(key, sanitizeHTML(value))
                               ELSE assignOwn(key, sanitizeText(value))
                     ELSE IF typeof(value) = "object"
                          THEN assignOwn(key, sanitizeObject(value,
                                   [given |-> TRUE, names |-> htmlFieldsOrDefault(htmlFields)]))
                     ELSE assignOwn(key, value)])

(***************************************************************************)
(* detectXSS with its pattern objects.                                     *)
(***************************************************************************)
\* the array xssPatterns, in its order
xssPatterns ==
    << [kind |-> "scriptPair", text |-> <<>>],
       [kind |-> "literal", text |-> <<"j", "a", "v", "a", "s", "c", "r", "i", "p", "t", ":">>],
       [kind |-> "handler", text |-> <<>>],
       [kind |-> "literal", text |-> <<"<", "i", "f", "r", "a", "m", "e">>],
       [kind |-> "literal", text |-> <<"e", "v", "a", "l", "(">>],
       [kind |-> "literal", text |-> <<"e", "x", "p", "r", "e", "s", "s", "i", "o", "n", "(">>],
       [kind |-> "literal", text |-> <<"<", "e", "m", "b", "e", "d">>],
       [kind |-> "literal", text |-> <<"<", "o", "b", "j", "e", "c", "t">>] >>

\* lastIndex of a regular expression object just created
NoMatchYet == [k \in 1..Len(xssPatterns) |-> 0]

\* the pattern objects a call of detectXSS tests: the array literal of the
\* function body creates them anew, whatever an earlier call left behind
freshPatterns_keptBetweenCalls(previous) == previous

freshPatterns(previous) == NoMatchYet

\* the letters of p, in any case, stand in s from position i on
lowerAt(s, i, p) ==
    /\ i + Len(p) - 1 <= Len(s)
    /\ \A n \in 1..Len(p) : toLowerChar(s[i + n - 1]) = p[n]

\* the index after the match of pattern k that starts at position i of s, 0 when
\* the pattern does not match there
matchEnd(k, s, i) ==
    IF xssPatterns[k].kind = "literal"
    THEN IF lowerAt(s, i, xssPatterns[k].text) THEN i + Len(xssPatterns[k].text) - 1 ELSE 0
    ELSE IF xssPatterns[k].kind = "scriptPair"
    THEN IF ~lowerAt(s, i, <<"<", "s", "c", "r", "i", "p", "t">>) THEN 0
         ELSE LET gt == indexOfChar(s, ">", i + 7)
                  ends == {j \in (gt + 1)..Len(s) :
                              /\ lowerAt(s, j, <<"<", "/", "s", "c", "r", "i", "p", "t", ">">>)
                              /\ \A m \in (gt + 1)..(j - 1) : s[m] \notin LineTerminators}
              IN  IF gt = 0 \/ ends = {} THEN 0
                  ELSE (CHOOSE j \in ends : \A h \in ends : j <= h) + 8
    ELSE IF ~lowerAt(s, i, <<"o", "n">>) THEN 0
         ELSE LET w == scanTo(s, i + 2, {c \in Range(s) : ~IsWordChar(c)})
                  e == skipSpace(s, w)
              IN  IF w > i + 2 /\ e <= Len(s) /\ s[e] = "=" THEN e ELSE 0

\* pattern.test(text) for a pattern with the g flag whose lastIndex is from: the
\* search starts at from, a match leaves lastIndex after it, a failure at 0
test(k, s, from) ==
    LET starts == {i \in (from + 1)..Len(s) : matchEnd(k, s, i) # 0}
    IN  IF starts = {} THEN [found |-> FALSE, lastIndex |-> 0]
        ELSE [found |-> TRUE,
              lastIndex |-> matchEnd(k, s, CHOOSE i \in starts : \A h \in starts : i <= h)]

\* xssPatterns.some(pattern => pattern.test(text)) from pattern k on: the patterns
\* are tested in order up to the first that matches
RECURSIVE some(_, _, _)
some(s, k, indices) ==
    IF k > Len(xssPatterns) THEN [found |-> FALSE, lastIndex |-> indices]
    ELSE LET r == test(k, s, indices[k])
             after == [indices EXCEPT ![k] = r.lastIndex]
         IN  IF r.found THEN [found |-> TRUE, lastIndex |-> after]
             ELSE some(s, k + 1, after)

(***************************************************************************)
(* validateCareerData.                                                     *)
(*                                                                         *)
(* The result { isValid, error? } is a record tagged "result"; error is     *)
(* Absent when the object has no such property.                            *)
(***************************************************************************)
\* data.jobTitle.length > 200
JobTitleLimit == 200

\* data.description.length > 10000
DescriptionLimit == 10000

JobTitleRequired == <<"J", "o", "b", " ", "t", "i", "t", "l", "e", " ", "i", "s", " ", "r", "e", "q", "u", "i", "r", "e", "d", " ", "a", "n", "d", " ", "m", "u", "s", "t", " ", "b", "e", " ", "a", " ", "s", "t", "r", "i", "n", "g">>

DescriptionRequired == <<"D", "e", "s", "c", "r", "i", "p", "t", "i", "o", "n", " ", "i", "s", " ", "r", "e", "q", "u", "i", "r", "e", "d", " ", "a", "n", "d", " ", "m", "u", "s", "t", " ", "b", "e", " ", "a", " ", "s", "t", "r", "i", "n", "g">>

LocationRequired == <<"L", "o", "c", "a", "t", "i", "o", "n", " ", "i", "s", " ", "r", "e", "q", "u", "i", "r", "e", "d", " ", "a", "n", "d", " ", "m", "u", "s", "t", " ", "b", "e", " ", "a", " ", "s", "t", "r", "i", "n", "g">>

WorkSetupRequired == <<"W", "o", "r", "k", " ", "s", "e", "t", "u", "p", " ", "i", "s", " ", "r", "e", "q", "u", "i", "r", "e", "d", " ", "a", "n", "d", " ", "m", "u", "s", "t", " ", "b", "e", " ", "a", " ", "s", "t", "r", "i", "n", "g">>

JobTitleTooLong == <<"J", "o", "b", " ", "t", "i", "t", "l", "e", " ", "m", "u", "s", "t", " ", "b", "e", " ", "l", "e", "s", "s", " ", "t", "h", "a", "n", " ", "2", "0", "0", " ", "c", "h", "a", "r", "a", "c", "t", "e", "r", "s">>

DescriptionTooLong == <<"D", "e", "s", "c", "r", "i", "p", "t", "i", "o", "n", " ", "m", "u", "s", "t", " ", "b", "e", " ", "l", "e", "s", "s", " ", "t", "h", "a", "n", " ", "1", "0", "0", "0", "0", " ", "c", "h", "a", "r", "a", "c", "t", "e", "r", "s">>

QuestionsNotArray == <<"Q", "u", "e", "s", "t", "i", "o", "n", "s", " ", "m", "u", "s", "t", " ", "b", "e", " ", "a", "n", " ", "a", "r", "r", "a", "y">>

Valid == [t |-> "result", isValid |-> TRUE, error |-> Absent]
Invalid(error) == [t |-> "result", isValid |-> FALSE, error |-> Str(error)]

\* data.key: reading a property of null or undefined raises a TypeError; a value
\* without the property gives undefined
canReadProperties(data) == data.t \notin {"null", "undefined"}

getProperty(data, key) ==
    IF data.t = "object" /\ key \in DOMAIN data.o /\ data.o[key] # Absent
    THEN data.o[key] ELSE Undefined

\* a required-field check that looks at the type only
isMissing_typeOnly(value) == typeof(value) # "string"

\* !data.f || typeof data.f !== 'string'
isMissing(value) == ~truthy(value) \/ typeof(value) # "string"

\* a length check that rejects the limit itself
exceeds_atLimit(value, limit) == Len(value.s) >= limit

\* data.f.length > limit
exceeds(value, limit) == Len(value.s) > limit

\* validateCareerData looking at the description before the job title
validateCareerData_descriptionFirst(data) ==
    IF ~canReadProperties(data) THEN TypeError
    ELSE IF isMissing(getProperty(data, "description")) THEN Invalid(DescriptionRequired)
    ELSE IF isMissing(getProperty(data, "jobTitle")) THEN Invalid(JobTitleRequired)
    ELSE IF isMissing(getProperty(data, "location")) THEN Invalid(LocationRequired)
    ELSE IF isMissing(getProperty(data, "workSetup")) THEN Invalid(WorkSetupRequired)
    ELSE IF exceeds(getProperty(data, "jobTitle"), JobTitleLimit) THEN Invalid(JobTitleTooLong)
    ELSE IF exceeds(getProperty(data, "description"), DescriptionLimit)
         THEN Invalid(DescriptionTooLong)
    ELSE IF truthy(getProperty(data, "questions")) /\ getProperty(data, "questions").t # "array"
         THEN Invalid(QuestionsNotArray)
    ELSE Valid

validateCareerData(data) ==
    IF ~canReadProperties(data) THEN TypeError
    ELSE IF isMissing(getProperty(data, "jobTitle")) THEN Invalid(JobTitleRequired)
    ELSE IF isMissing(getProperty(data, "description")) THEN Invalid(DescriptionRequired)
    ELSE IF isMissing(getProperty(data, "location")) THEN Invalid(LocationRequired)
    ELSE IF isMissing(getProperty(data, "workSetup")) THEN Invalid(WorkSetupRequired)
    ELSE IF exceeds(getProperty(data, "jobTitle"), JobTitleLimit) THEN Invalid(JobTitleTooLong)
    ELSE IF exceeds(getProperty(data, "description"), DescriptionLimit)
         THEN Invalid(DescriptionTooLong)
    ELSE IF truthy(getProperty(data, "questions")) /\ getProperty(data, "questions").t # "array"
         THEN Invalid(QuestionsNotArray)
    ELSE Valid

(***************************************************************************)
(* The HTTP requests.  Each request is handled by one invocation of a      *)
(* route's POST function; invocations of different requests interleave at  *)
(* the awaits.                                                             *)
(***************************************************************************)
Requests == {"r1", "r2"}

\* a request that has not come in
NotReceived ==
    [route |-> "none", body |-> Undefined, at |-> "request.json", local |-> Undefined,
     response |-> Undefined, trace |-> <<>>]

\* no request has come in, the careers collection is empty
NoRequests ==
    /\ requests = [r \in Requests |-> NotReceived]
    /\ careers = {}
    /\ console = [r \in Requests |-> <<>>]
    /\ writes = [r \in Requests |-> <<>>]

(***************************************************************************)
(* The calls.  A behaviour starts with a call of one function on one       *)
(* argument; the function returns in one step; a sanitizer may then be     *)
(* applied once more, to what it returned.                                 *)
(***************************************************************************)
\* strings of at most n characters of alphabet A
Strings(A, n) == UNION {[1..k -> A] : k \in 0..n}

\* the inputs of the repository's documentation and tests
DocTextExample == <<"<", "s", "c", "r", "i", "p", "t", ">", "a", "l", "e", "r", "t", "(", "\"", "X", "S", "S", "\"", ")", "<", "/", "s", "c", "r", "i", "p", "t", ">", "H", "e", "l", "l", "o">>

DocScriptXSS == <<"<", "s", "c", "r", "i", "p", "t", ">", "X", "S", "S", "<", "/", "s", "c", "r", "i", "p", "t", ">">>

DocSafeHTML == <<"<", "p", ">", "S", "a", "f", "e", " ", "H", "T", "M", "L", "<", "/", "p", ">">>

TestSafeText == <<"S", "a", "f", "e", " ", "t", "e", "x", "t">>

TestAmpScript == <<"T", "e", "s", "t", " ", "&", " ", "<", "s", "c", "r", "i", "p", "t", ">">>

TestPaddedText == <<" ", " ", "H", "e", "l", "l", "o", " ", "W", "o", "r", "l", "d", " ", " ">>

DocHtmlExample == <<"<", "p", ">", "H", "e", "l", "l", "o", "<", "/", "p", ">", "<", "s", "c", "r", "i", "p", "t", ">", "a", "l", "e", "r", "t", "(", "\"", "X", "S", "S", "\"", ")", "<", "/", "s", "c", "r", "i", "p", "t", ">">>

TestImgOnerror == <<"<", "i", "m", "g", " ", "o", "n", "e", "r", "r", "o", "r", "=", "\"", "a", "l", "e", "r", "t", "(", "'", "X", "S", "S", "'", ")", "\"", ">">>

TestHttpsUrl == <<"h", "t", "t", "p", "s", ":", "/", "/", "e", "x", "a", "m", "p", "l", "e", ".", "c", "o", "m">>

TestNotAUrl == <<"n", "o", "t", " ", "a", " ", "u", "r", "l">>

DocJavascriptUrl == <<"j", "a", "v", "a", "s", "c", "r", "i", "p", "t", ":", "a", "l", "e", "r", "t", "(", "\"", "X", "S", "S", "\"", ")">>

Omitted == [given |-> FALSE, names |-> {}]
HtmlFields(names) == [given |-> TRUE, names |-> names]

\* an object with the given properties and no others
ObjectOf(props) == Obj([k \in Keys |-> IF k \in DOMAIN props THEN props[k] ELSE Absent])

\* values that are not non-empty strings
NonStrings ==
    { Null, Undefined, Num(0), Num(42), Bool(TRUE), Bool(FALSE), Str(<<>>),
      Arr(<<>>), Arr(<<Str(<<"a">>)>>), ObjectOf(<<>>) }

TextAlphabet == {"<", ">", "&", "\"", "'", "/", "\\", Grave, NUL, " ", "a"}

TextInputs ==
    NonStrings \cup
    {Str(s) : s \in Strings(TextAlphabet, MaxLen)
                    \cup {DocTextExample, DocScriptXSS, TestAmpScript, TestPaddedText}}

HtmlAlphabet == {"<", ">", "/", "p", "x", "&", " ", "\n"}

\* the pieces HTML inputs are put together from
HtmlPieces ==
    { <<"<", "p", ">">>,
      <<"<", "/", "p", ">">>,
      <<"x">>,
      <<"o", "n", "x", "=", "1">>,
      <<"<", "s", "c", "r", "i", "p", "t", ">">>,
      <<"<", "/", "s", "c", "r", "i", "p", "t", ">">>,
      <<"<", "b", ">">>,
      <<"<", "p", "r", "e", ">">>,
      <<"\n">>,
      <<"<", "a", " ", "h", "r", "e", "f", "=", "\"">>,
      <<"\"", ">">>,
      <<"<", "p", " ">>,
      <<">">>,
      <<"&", "l", "t", ";">> }

\* whole HTML inputs: attributes, and the elements the signatures name
HtmlSamples ==
    { <<"<", "p", " ", "o", "n", "x", "=", "1", ">", "x", "<", "/", "p", ">">>,
      <<"<", "a", " ", "h", "r", "e", "f", "=", "\"", "<", "s", "c", "r", "i", "p", "t", "\"", ">", "x", "<", "/", "a", ">">>,
      <<"<", "a", " ", "h", "r", "e", "f", "=", "\"", "j", "a", "v", "a", "s", "c", "r", "i", "p", "t", ":", "x", "\"", " ", "t", "a", "r", "g", "e", "t", "=", "\"", "y", "\"", ">", "x", "<", "/", "a", ">">>,
      <<"<", "a", " ", "h", "r", "e", "f", "=", "\"", "h", "t", "t", "p", ":", "/", "/", "x", "\"", " ", "o", "n", "c", "l", "i", "c", "k", "=", "\"", "x", "\"", ">", "x", "<", "/", "a", ">">>,
      <<"<", "i", "f", "r", "a", "m", "e", ">", "x", "<", "/", "i", "f", "r", "a", "m", "e", ">">>,
      <<"<", "e", "m", "b", "e", "d", ">", "x">>,
      <<"<", "o", "b", "j", "e", "c", "t", ">", "x", "<", "/", "o", "b", "j", "e", "c", "t", ">">>,
      <<"<", "s", "t", "y", "l", "e", ">", "x", "<", "/", "s", "t", "y", "l", "e", ">", "x">>,
      <<"<", "S", "c", "R", "i", "P", "t", ">", "x", "<", "/", "s", "C", "r", "I", "p", "T", ">", "x">>,
      <<"<", "p", " ", "a", "r", "i", "a", "-", "l", "a", "b", "e", "l", "=", "\"", "x", "\"", ">", "x", "<", "/", "p", ">">>,
      <<"<", "a", "u", "d", "i", "o", ">", "x", "<", "/", "a", "u", "d", "i", "o", ">", "x">>,
      <<"<", "p", "r", "e", " ", "a", "r", "i", "a", "-", "l", "a", "b", "e", "l", "=", "\"", "x", "\"", ">", "\n", "\n", "x", "<", "/", "p", "r", "e", ">">> }

TestImgSrcOnerror == <<"<", "i", "m", "g", " ", "s", "r", "c", "=", "\"", "x", "\"", " ", "o", "n", "e", "r", "r", "o", "r", "=", "\"", "a", "l", "e", "r", "t", "(", "'", "X", "S", "S", "'", ")", "\"", ">">>

TestStrongInP == <<"<", "p", ">", "H", "e", "l", "l", "o", " ", "<", "s", "t", "r", "o", "n", "g", ">", "W", "o", "r", "l", "d", "<", "/", "s", "t", "r", "o", "n", "g", ">", "<", "/", "p", ">">>

TestIframeSrc == <<"<", "i", "f", "r", "a", "m", "e", " ", "s", "r", "c", "=", "\"", "j", "a", "v", "a", "s", "c", "r", "i", "p", "t", ":", "a", "l", "e", "r", "t", "(", "'", "X", "S", "S", "'", ")", "\"", ">", "<", "/", "i", "f", "r", "a", "m", "e", ">">>

\* the concatenation of a sequence of strings
RECURSIVE Concat(_)
Concat(ss) == IF ss = <<>> THEN <<>> ELSE Head(ss) \o Concat(Tail(ss))

HtmlInputs ==
    NonStrings \cup
    {Str(s) : s \in Strings(HtmlAlphabet, MaxLen) \cup {DocHtmlExample, DocSafeHTML, TestImgOnerror}}
    \cup {Str(Concat(ps)) : ps \in Strings(HtmlPieces, MaxPieces)}
    \cup {Str(s) : s \in HtmlSamples \cup {TestImgSrcOnerror, TestStrongInP, TestIframeSrc}}

UrlAlphabet == {" ", "a", ".", "/", ":"}

UrlPads == {<<>>, <<" ">>}

UrlSchemes ==
    { <<>>, <<"j", "a", "v", "a", "s", "c", "r", "i", "p", "t", ":">>, <<"J", "a", "v", "a", "S", "c", "r", "i", "p", "t", ":">>, <<"d", "a", "t", "a", ":">>, <<"V", "B", "S", "c", "r", "i", "p", "t", ":">>, <<"f", "i", "l", "e", ":">>,
      <<"h", "t", "t", "p", ":", "/", "/">>, <<"h", "t", "t", "p", "s", ":", "/", "/">>, <<"f", "t", "p", ":", "/", "/">> }

UrlHosts == { <<>>, <<"e", "x", "a", "m", "p", "l", "e", ".", "c", "o", "m">>, <<"a", "@", "e", "x", "a", "m", "p", "l", "e", ".", "c", "o", "m">> }

UrlInputs ==
    NonStrings \cup
    {Str(pad \o scheme \o host \o rest) :
        pad \in UrlPads, scheme \in UrlSchemes, host \in UrlHosts,
        rest \in Strings(UrlAlphabet, MaxLen - 1)}
    \cup {Str(TestHttpsUrl), Str(TestNotAUrl), Str(DocJavascriptUrl)}

\* the pieces detectXSS inputs are put together from
XssPieces ==
    { <<"<", "s", "c", "r", "i", "p", "t">>,
      <<">">>,
      <<"<", "/", "s", "c", "r", "i", "p", "t", ">">>,
      <<"\n">>,
      <<"j", "a", "v", "a", "s", "c", "r", "i", "p", "t", ":">>,
      <<"o", "n">>,
      <<"x">>,
      <<" ">>,
      <<"=">>,
      <<"<", "i", "f", "r", "a", "m", "e">>,
      <<"e", "v", "a", "l", "(">>,
      <<"e", "x", "p", "r", "e", "s", "s", "i", "o", "n", "(">>,
      <<"<", "e", "m", "b", "e", "d">>,
      <<"<", "o", "b", "j", "e", "c", "t">> }

\* whole detectXSS inputs: letter case, line feeds and white space in signatures
XssSamples ==
    { <<"<", "s", "c", "r", "i", "p", "t", ">", "\n", "<", "/", "s", "c", "r", "i", "p", "t", ">">>,
      <<"<", "s", "c", "r", "i", "p", "t", " ", "x", ">", "x", "<", "/", "s", "c", "r", "i", "p", "t", ">">>,
      <<"<", "S", "c", "R", "i", "P", "t", ">", "x", "<", "/", "s", "C", "r", "I", "p", "T", ">">>,
      <<"J", "a", "V", "a", "S", "c", "R", "i", "P", "t", ":">>,
      <<"O", "N", "x", "=">>,
      <<"o", "n", "x", " ", "=">>,
      <<"o", "n", " ", "x", "=">>,
      <<"o", "n", "=">>,
      <<"s", "c", "r", "i", "p", "t">>,
      <<"<", "i", "f", "r", "a", "m", "e", " ", "s", "r", "c", "=", "\"", "e", "v", "i", "l", ".", "c", "o", "m", "\"", ">", "<", "/", "i", "f", "r", "a", "m", "e", ">">>,
      <<"E", "V", "A", "L", "(">>,
      <<"E", "x", "p", "r", "e", "s", "s", "i", "o", "n", "(">>,
      <<"<", "E", "M", "B", "E", "D">>,
      <<"<", "O", "b", "j", "e", "c", "t">> }

ImgOnerrorAlert1 == <<"<", "i", "m", "g", " ", "o", "n", "e", "r", "r", "o", "r", "=", "\"", "a", "l", "e", "r", "t", "(", "1", ")", "\"", ">">>

TestSafeContent == <<"T", "h", "i", "s", " ", "i", "s", " ", "s", "a", "f", "e", " ", "c", "o", "n", "t", "e", "n", "t">>

XssInputs ==
    NonStrings \cup
    {Str(TestImgOnerror), Str(DocScriptXSS), Str(TestSafeText), Str(DocJavascriptUrl)}
    \cup {Str(Concat(ps)) : ps \in Strings(XssPieces, MaxPieces)}
    \cup {Str(s) : s \in XssSamples \cup {ImgOnerrorAlert1, TestSafeContent, DocTextExample}}

\* the leaves of the structured values
Leaves ==
    { Null, Undefined, Num(42), Bool(FALSE),
      Str(DocScriptXSS), Str(DocSafeHTML), Str(TestSafeText) }

\* structured values nested at most d deep
RECURSIVE Values(_)
Values(d) ==
    IF d = 0 THEN Leaves
    ELSE LET V == Values(d - 1)
         IN  Leaves
             \cup {Arr(<<>>)}
             \cup {Arr(<<x>>) : x \in V}
             \cup {Arr(<<x, y>>) : x \in V, y \in {Str(TestSafeText), Num(42)}}
             \cup {ObjectOf(k :> x) : k \in Keys, x \in V}
             \cup {ObjectOf("title" :> x @@ "description" :> y) : x \in Leaves, y \in Leaves}

\* a string of n characters c
Repeat(c, n) == [i \in 1..n |-> c]

TestJobTitle == <<"S", "o", "f", "t", "w", "a", "r", "e", " ", "E", "n", "g", "i", "n", "e", "e", "r">>

TestDescription == <<"G", "r", "e", "a", "t", " ", "o", "p", "p", "o", "r", "t", "u", "n", "i", "t", "y">>

TestRemote == <<"R", "e", "m", "o", "t", "e">>

TestNotAnArray == <<"n", "o", "t", " ", "a", "n", " ", "a", "r", "r", "a", "y">>

\* a job title of JobTitleLimit + 1 characters whose plain-text form is shorter
TaggedJobTitle == <<"<", "b", ">">> \o Repeat("A", JobTitleLimit - 2)

JobTitleInputs ==
    { Absent, Null, Num(42), Str(<<>>), Str(TestJobTitle),
      Str(Repeat("A", JobTitleLimit)), Str(Repeat("A", JobTitleLimit + 1)), Str(TaggedJobTitle) }

DescriptionInputs == { Absent, Num(42), Str(<<>>), Str(TestDescription) }

LongDescriptionInputs ==
    { Str(Repeat("A", DescriptionLimit)), Str(Repeat("A", DescriptionLimit + 1)) }

LocationInputs == { Absent, Num(42), Str(TestRemote) }

WorkSetupInputs == { Absent, Str(<<>>), Str(TestRemote) }

QuestionsInputs ==
    { Absent, Null, Arr(<<>>), Arr(<<Str(<<"a">>)>>), Str(TestNotAnArray), Str(<<>>),
      Num(0), Num(42), Bool(FALSE), Bool(TRUE), ObjectOf(<<>>) }

CareerData(jobTitle, description, location, workSetup, questions) ==
    Obj("jobTitle" :> jobTitle @@ "description" :> description @@ "location" :> location
        @@ "workSetup" :> workSetup @@ "questions" :> questions)

\* the records handed to validateCareerData; the long descriptions come with a
\* few of the other values only
CareerInputs ==
    NonStrings \cup {Str(TestJobTitle)}
    \cup {CareerData(j, d, l, w, q) :
             j \in JobTitleInputs, d \in DescriptionInputs, l \in LocationInputs,
             w \in WorkSetupInputs, q \in QuestionsInputs}
    \cup {CareerData(j, d, l, Str(TestRemote), q) :
             j \in JobTitleInputs, d \in LongDescriptionInputs, l \in LocationInputs,
             q \in {Absent, Arr(<<>>), Str(TestNotAnArray)}}

FieldsInputs == {Omitted, HtmlFields({}), HtmlFields({"description"})}

\* the calls a behaviour may start with
Calls ==
    [op : {"sanitizeText"}, arg : TextInputs, fields : {Omitted}]
    \cup [op : {"sanitizeHTML"}, arg : HtmlInputs, fields : {Omitted}]
    \cup [op : {"sanitizeURL"}, arg : UrlInputs, fields : {Omitted}]
    \cup [op : {"detectXSS"}, arg : XssInputs, fields : {Omitted}]
    \cup [op : {"sanitizeObject"}, arg : Values(MaxDepth), fields : FieldsInputs]
    \cup [op : {"validateCareerData"}, arg : CareerInputs, fields : {Omitted}]

Init ==
    /\ \E c \in Calls : op = c.op /\ arg = c.arg /\ fields = c.fields
    /\ pc = "called"
    /\ ret = Undefined
    /\ chained = FALSE
    /\ log = [c \in {} |-> 0]
    /\ lastIndex = NoMatchYet
    /\ count = 0
    /\ NoRequests

CallSanitizeText ==
    /\ pc = "called"
    /\ op = "sanitizeText"
    /\ ret' = sanitizeText(arg)
    /\ pc' = "returned"
    /\ UNCHANGED <<op, arg, fields, chained>>
    /\ UNCHANGED <<runVars, handlerVars>>

\* sanitizeText applied to what sanitizeText returned
CallSanitizeTextAgain ==
    /\ pc = "returned"
    /\ op = "sanitizeText"
    /\ ~chained
    /\ arg' = ret
    /\ ret' = sanitizeText(ret)
    /\ chained' = TRUE
    /\ UNCHANGED <<op, fields, pc>>
    /\ UNCHANGED <<runVars, handlerVars>>

CallSanitizeHTML ==
    /\ pc = "called"
    /\ op = "sanitizeHTML"
    /\ ret' = sanitizeHTML(arg)
    /\ pc' = "returned"
    /\ UNCHANGED <<op, arg, fields, chained>>
    /\ UNCHANGED <<runVars, handlerVars>>

\* sanitizeHTML applied to what sanitizeHTML returned
CallSanitizeHTMLAgain ==
    /\ pc = "returned"
    /\ op = "sanitizeHTML"
    /\ ~chained
    /\ arg' = ret
    /\ ret' = sanitizeHTML(ret)
    /\ chained' = TRUE
    /\ UNCHANGED <<op, fields, pc>>
    /\ UNCHANGED <<runVars, handlerVars>>

CallSanitizeURL ==
    /\ pc = "called"
    /\ op = "sanitizeURL"
    /\ ret' = sanitizeURL(arg)
    /\ pc' = "returned"
    /\ UNCHANGED <<op, arg, fields, chained>>
    /\ UNCHANGED <<runVars, handlerVars>>

CallSanitizeObject ==
    /\ pc = "called"
    /\ op = "sanitizeObject"
    /\ ret' = sanitizeObject(arg, fields)
    /\ pc' = "returned"
    /\ UNCHANGED <<op, arg, fields, chained>>
    /\ UNCHANGED <<runVars, handlerVars>>

CallDetectXSS ==
    /\ pc = "called"
    /\ op = "detectXSS"
    /\ ret' = detectXSS(arg)
    /\ pc' = "returned"
    /\ UNCHANGED <<op, arg, fields, chained>>
    /\ UNCHANGED <<runVars, handlerVars>>

CallValidateCareerData ==
    /\ pc = "called"
    /\ op = "validateCareerData"
    /\ ret' = validateCareerData(arg)
    /\ pc' = "returned"
    /\ UNCHANGED <<op, arg, fields, chained>>
    /\ UNCHANGED <<runVars, handlerVars>>

Next ==
    \/ CallSanitizeText
    \/ CallSanitizeTextAgain
    \/ CallSanitizeHTML
    \/ CallSanitizeHTMLAgain
    \/ CallSanitizeURL
    \/ CallSanitizeObject
    \/ CallDetectXSS
    \/ CallValidateCareerData

Spec == Init /\ [][Next]_vars

\* a call of the named function has returned
Returned(name) == pc = "returned" /\ op = name

(***************************************************************************)
(* Runs of calls.  A behaviour is a run of at most MaxCalls calls, each of  *)
(* any of the six functions, made one after the other (the functions are   *)
(* synchronous: a call returns before the next begins).                    *)
(***************************************************************************)
TestCareerData ==
    CareerData(Str(TestJobTitle), Str(TestDescription), Str(TestRemote), Str(TestRemote), Arr(<<>>))

RunCalls ==
    [op : {"sanitizeText"}, arg : {Str(TestAmpScript), Null}, fields : {Omitted}]
    \cup [op : {"sanitizeHTML"}, arg : {Str(DocHtmlExample)}, fields : {Omitted}]
    \cup [op : {"sanitizeURL"}, arg : {Str(TestHttpsUrl), Str(DocJavascriptUrl)}, fields : {Omitted}]
    \cup [op : {"sanitizeObject"}, arg : {ObjectOf("title" :> Str(DocScriptXSS))},
          fields : {HtmlFields({"description"})}]
    \cup [op : {"validateCareerData"}, arg : {TestCareerData, Null}, fields : {Omitted}]
    \cup [op : {"detectXSS"},
          arg : {Str(DocScriptXSS), Str(ImgOnerrorAlert1), Str(TestSafeContent), Str(DocJavascriptUrl)},
          fields : {Omitted}]

InitRun ==
    /\ op = "none"
    /\ arg = Undefined
    /\ fields = Omitted
    /\ pc = "idle"
    /\ ret = Undefined
    /\ chained = FALSE
    /\ log = [c \in {} |-> 0]
    /\ lastIndex = NoMatchYet
    /\ count = 0
    /\ NoRequests

\* the log after call c returned result
logged(c, result) ==
    IF c \in DOMAIN log
    THEN [log EXCEPT ![c] = [first |-> @.first, times |-> @.times + 1]]
    ELSE log @@ (c :> [first |-> result, times |-> 1])

\* call c is made and returns result
Made(c, result) ==
    /\ count < MaxCalls
    /\ op' = c.op
    /\ arg' = c.arg
    /\ fields' = c.fields
    /\ ret' = result
    /\ pc' = "returned"
    /\ log' = logged(c, result)
    /\ count' = count + 1
    /\ UNCHANGED chained
    /\ UNCHANGED handlerVars

RunSanitizeText ==
    \E c \in RunCalls :
       /\ c.op = "sanitizeText"
       /\ Made(c, sanitizeText(c.arg))
       /\ UNCHANGED lastIndex

RunSanitizeHTML ==
    \E c \in RunCalls :
       /\ c.op = "sanitizeHTML"
       /\ Made(c, sanitizeHTML(c.arg))
       /\ UNCHANGED lastIndex

RunSanitizeURL ==
    \E c \in RunCalls :
       /\ c.op = "sanitizeURL"
       /\ Made(c, sanitizeURL(c.arg))
       /\ UNCHANGED lastIndex

RunSanitizeObject ==
    \E c \in RunCalls :
       /\ c.op = "sanitizeObject"
       /\ Made(c, sanitizeObject(c.arg, c.fields))
       /\ UNCHANGED lastIndex

RunValidateCareerData ==
    \E c \in RunCalls :
       /\ c.op = "validateCareerData"
       /\ Made(c, validateCareerData(c.arg))
       /\ UNCHANGED lastIndex

\* detectXSS with its pattern objects: the guard, then some() over the patterns
\* the array literal creates
RunDetectXSS ==
    \E c \in RunCalls :
       /\ c.op = "detectXSS"
       /\ IF ~truthy(c.arg) \/ typeof(c.arg) # "string"
          THEN Made(c, Bool(FALSE)) /\ UNCHANGED lastIndex
          ELSE LET tested == some(c.arg.s, 1, freshPatterns(lastIndex))
               IN  Made(c, Bool(tested.found)) /\ lastIndex' = tested.lastIndex

NextRun ==
    \/ RunSanitizeText
    \/ RunSanitizeHTML
    \/ RunSanitizeURL
    \/ RunSanitizeObject
    \/ RunValidateCareerData
    \/ RunDetectXSS

SpecRun == InitRun /\ [][NextRun]_vars

\* the call that returned last
LastCall == [op |-> op, arg |-> arg, fields |-> fields]

(***************************************************************************)
(* The route handlers add-career and update-career, and the database.      *)
(*                                                                         *)
(* A handler runs from one await to the next without interruption; what it *)
(* awaits from the database is carried out at one instant.  An action is   *)
(* the code between two awaits together with the database operation the    *)
(* second await waits for.  The database answers every operation.          *)
(* new Date() is the one value Date, guid() a string naming the request.   *)
(***************************************************************************)
\* the string literals of add-career
AddCareerTexts ==
    [warning |-> <<"P", "o", "t", "e", "n", "t", "i", "a", "l", " ", "X", "S", "S", " ", "a", "t", "t", "e", "m", "p", "t", " ", "d", "e", "t", "e", "c", "t", "e", "d", " ", "i", "n", " ", "c", "a", "r", "e", "e", "r", " ", "p", "o", "s", "t", " ", "s", "u", "b", "m", "i", "s", "s", "i", "o", "n">>,
     required |-> <<"J", "o", "b", " ", "t", "i", "t", "l", "e", ",", " ", "d", "e", "s", "c", "r", "i", "p", "t", "i", "o", "n", ",", " ", "l", "o", "c", "a", "t", "i", "o", "n", " ", "a", "n", "d", " ", "w", "o", "r", "k", " ", "s", "e", "t", "u", "p", " ", "a", "r", "e", " ", "r", "e", "q", "u", "i", "r", "e", "d">>,
     notFound |-> <<"O", "r", "g", "a", "n", "i", "z", "a", "t", "i", "o", "n", " ", "n", "o", "t", " ", "f", "o", "u", "n", "d">>,
     maximum |-> <<"Y", "o", "u", " ", "h", "a", "v", "e", " ", "r", "e", "a", "c", "h", "e", "d", " ", "t", "h", "e", " ", "m", "a", "x", "i", "m", "u", "m", " ", "n", "u", "m", "b", "e", "r", " ", "o", "f", " ", "j", "o", "b", "s", " ", "f", "o", "r", " ", "y", "o", "u", "r", " ", "p", "l", "a", "n">>,
     added |-> <<"C", "a", "r", "e", "e", "r", " ", "a", "d", "d", "e", "d", " ", "s", "u", "c", "c", "e", "s", "s", "f", "u", "l", "l", "y">>,
     errorLog |-> <<"E", "r", "r", "o", "r", " ", "a", "d", "d", "i", "n", "g", " ", "c", "a", "r", "e", "e", "r", ":">>,
     failed |-> <<"F", "a", "i", "l", "e", "d", " ", "t", "o", " ", "a", "d", "d", " ", "c", "a", "r", "e", "e", "r">>,
     active |-> <<"a", "c", "t", "i", "v", "e">>]

\* the string literals of update-career
UpdateCareerTexts ==
    [required |-> <<"J", "o", "b", " ", "O", "b", "j", "e", "c", "t", " ", "I", "D", " ", "i", "s", " ", "r", "e", "q", "u", "i", "r", "e", "d">>,
     warning |-> <<"P", "o", "t", "e", "n", "t", "i", "a", "l", " ", "X", "S", "S", " ", "a", "t", "t", "e", "m", "p", "t", " ", "d", "e", "t", "e", "c", "t", "e", "d", " ", "i", "n", " ", "c", "a", "r", "e", "e", "r", " ", "u", "p", "d", "a", "t", "e">>,
     updated |-> <<"C", "a", "r", "e", "e", "r", " ", "u", "p", "d", "a", "t", "e", "d", " ", "s", "u", "c", "c", "e", "s", "s", "f", "u", "l", "l", "y">>,
     errorLog |-> <<"E", "r", "r", "o", "r", " ", "u", "p", "d", "a", "t", "i", "n", "g", " ", "c", "a", "r", "e", "e", "r", ":">>,
     failed |-> <<"F", "a", "i", "l", "e", "d", " ", "t", "o", " ", "u", "p", "d", "a", "t", "e", " ", "c", "a", "r", "e", "e", "r">>]

\* NextResponse.json(body, { status })
Response(status, body) == [status |-> status, body |-> body]

\* an entry console.warn or console.error writes
Logged(level, message) == [level |-> level, message |-> message]

\* new Date()
NewDate == [t |-> "Date"]

\* guid()
guid(r) == Str(<<"g", "u", "i", "d", "-", r>>)

HexDigits == Digits \cup {"a", "b", "c", "d", "e", "f", "A", "B", "C", "D", "E", "F"}

\* new ObjectId(v) of the mongodb driver, for undefined and for strings: without
\* an argument it makes a new identifier, a string of 24 hexadecimal digits or of
\* 12 bytes names one, any other string raises an error
isValidObjectId(v) ==
    \/ v = Undefined
    \/ /\ v.t = "string"
       /\ \/ Len(v.s) = 12
          \/ Len(v.s) = 24 /\ \A i \in 1..24 : v.s[i] \in HexDigits

ObjectId(v) ==
    IF v = Undefined THEN [t |-> "ObjectId", id |-> <<"n", "e", "w">>]
    ELSE [t |-> "ObjectId", id |-> toLowerCase(v.s)]

\* the identifiers the database gives to the documents it inserts, in order
InsertedIds == <<Repeat("1", 24), Repeat("2", 24)>>

\* the organizations collection joined with organization-plans: the first
\* organization has no extraJobSlots
OrgA == Repeat("a", 24)
OrgB == Repeat("b", 24)
UnknownOrg == Repeat("c", 24)

organizations ==
    {[_id |-> ObjectId(Str(OrgA)), plan |-> [jobLimit |-> 1], extraJobSlots |-> Undefined],
     [_id |-> ObjectId(Str(OrgB)), plan |-> [jobLimit |-> 0], extraJobSlots |-> Num(1)]}

\* db.collection("organizations").aggregate([$match, $lookup, $unwind]).toArray()
aggregate(id) ==
    IF \E o \in organizations : o._id = id
    THEN <<CHOOSE o \in organizations : o._id = id>>
    ELSE <<>>

\* orgDetails[0].plan.jobLimit + (orgDetails[0].extraJobSlots || 0)
jobSlots(org) ==
    org.plan.jobLimit + (IF truthy(org.extraJobSlots) THEN org.extraJobSlots.n ELSE 0)

\* db.collection("careers").countDocuments({ orgID, status: "active" })
countDocuments(collection, orgID) ==
    Cardinality({d \in collection : /\ getProperty(d, "orgID") = orgID
                                    /\ getProperty(d, "status") = Str(AddCareerTexts.active)})

\* [rawData.jobTitle, rawData.description, rawData.location,
\*  rawData.workSetupRemarks].filter(Boolean)
fieldsToCheck(rawData) ==
    SelectSeq(<<getProperty(rawData, "jobTitle"), getProperty(rawData, "description"),
                getProperty(rawData, "location"), getProperty(rawData, "workSetupRemarks")>>,
              truthy)

\* fieldsToCheck.some(field => detectXSS(field))
xssDetected(rawData) ==
    \E i \in 1..Len(fieldsToCheck(rawData)) : detectXSS(fieldsToCheck(rawData)[i]) = Bool(TRUE)

\* the fields add-career hands to sanitizeText whatever they are, and those it
\* hands to it when they are truthy
RequiredTextFields == {"jobTitle", "location", "workSetup"}

OptionalTextFields == {"workSetupRemarks", "country", "province", "employmentType"}

\* the constants of add-career's lines 40 to 73, by name:
\*   sanitizeText(rawData.f) for jobTitle, location and workSetup,
\*   sanitizeHTML(rawData.description),
\*   rawData.f ? sanitizeText(rawData.f) : undefined for the optional text fields,
\*   rawData.questions ? sanitizeObject(rawData.questions, ['description']) : [],
\*   rawData.screeningSetting ? sanitizeObject(rawData.screeningSetting) : undefined,
\*   and the destructured fields as they are
addCareerFields(rawData) ==
    [k \in RequiredTextFields \cup OptionalTextFields
           \cup {"description", "questions", "screeningSetting", "lastEditedBy", "createdBy",
                 "orgID", "requireVideo", "status", "salaryNegotiable", "minimumSalary",
                 "maximumSalary"} |->
        LET value == getProperty(rawData, k)
        IN  IF k \in RequiredTextFields \cup OptionalTextFields
            THEN IF k \in OptionalTextFields /\ ~truthy(value) THEN Undefined
                 ELSE sanitizeText(value)
            ELSE IF k = "description" THEN sanitizeHTML(value)
            ELSE IF k \in {"questions", "screeningSetting"}
            THEN IF truthy(value)
                 THEN sanitizeObject(value, IF k = "questions" THEN HtmlFields({"description"})
                                                               ELSE Omitted)
                 ELSE IF k = "questions" THEN Arr(<<>>) ELSE Undefined
            ELSE value]

\* add-career without its check of the sanitized fields
requiredFieldEmpty_notChecked(f) == FALSE

\* !jobTitle || !description || !location || !workSetup
requiredFieldEmpty(f) ==
    ~truthy(f.jobTitle) \/ ~truthy(f.description) \/ ~truthy(f.location) \/ ~truthy(f.workSetup)

\* a career object that takes the job title as it came in
career_rawJobTitle(f, rawData, r) ==
    Obj([id |-> guid(r), createdAt |-> NewDate, updatedAt |-> NewDate, lastActivityAt |-> NewDate]
        @@ [f EXCEPT !.jobTitle = getProperty(rawData, "jobTitle"),
                     !.status = IF truthy(@) THEN @ ELSE Str(AddCareerTexts.active)])

\* const career = { id: guid(), jobTitle, ..., status: status || "active", ... }
career(f, rawData, r) ==
    Obj([id |-> guid(r), createdAt |-> NewDate, updatedAt |-> NewDate, lastActivityAt |-> NewDate]
        @@ [f EXCEPT !.status = IF truthy(@) THEN @ ELSE Str(AddCareerTexts.active)])

\* a handler answering an invalid body with a message of its own
invalidResponse_ownMessage(validation) ==
    Response(400, [error |-> Str(AddCareerTexts.required)])

\* NextResponse.json({ error: validation.error }, { status: 400 })
invalidResponse(validation) == Response(400, [error |-> validation.error])

\* the catch blocks: console.error and the 500 response
caught(texts) ==
    [response |-> Response(500, [error |-> Str(texts.failed)]),
     console |-> <<Logged("error", texts.errorLog)>>]

\* add-career from the detection to connectMongoDB(), with the outcome of the
\* detection and the sanitized fields
addCareerAccepted(detected, f) ==
    [response |-> IF requiredFieldEmpty(f)
                  THEN Response(400, [error |-> Str(AddCareerTexts.required)])
                  ELSE Undefined,
     console |-> IF detected THEN <<Logged("warn", AddCareerTexts.warning)>> ELSE <<>>,
     local |-> IF requiredFieldEmpty(f) THEN Undefined
               ELSE [fields |-> f, orgDetails |-> <<>>, totalActiveCareers |-> 0],
     trace |-> IF requiredFieldEmpty(f)
               THEN <<"validateCareerData", "detectXSS", "sanitize">>
               ELSE <<"validateCareerData", "detectXSS", "sanitize", "connectMongoDB">>]

\* add-career from the validation on, with what validateCareerData gave
addCareerValidated(validation, rawData) ==
    IF validation = TypeError
    THEN [response |-> caught(AddCareerTexts).response,
          console |-> caught(AddCareerTexts).console,
          local |-> Undefined,
          trace |-> <<"validateCareerData">>]
    ELSE IF ~validation.isValid
    THEN [response |-> invalidResponse(validation),
          console |-> <<>>,
          local |-> Undefined,
          trace |-> <<"validateCareerData">>]
    ELSE addCareerAccepted(xssDetected(rawData), addCareerFields(rawData))

\* add-career from request.json() to connectMongoDB()
addCareerReceived(rawData) == addCareerValidated(validateCareerData(rawData), rawData)

\* update-career from request.json() to connectMongoDB()
updateCareerReceived(requestData) ==
    IF ~canReadProperties(requestData)
    THEN [response |-> caught(UpdateCareerTexts).response,
          console |-> caught(UpdateCareerTexts).console,
          local |-> Undefined,
          trace |-> <<>>]
    ELSE IF ~truthy(getProperty(requestData, "_id"))
    THEN [response |-> Response(400, [error |-> Str(UpdateCareerTexts.required)]),
          console |-> <<>>,
          local |-> Undefined,
          trace |-> <<>>]
    ELSE [response |-> Undefined,
          console |-> IF xssDetected(requestData)
                      THEN <<Logged("warn", UpdateCareerTexts.warning)>> ELSE <<>>,
          local |-> Undefined,
          trace |-> <<"detectXSS", "connectMongoDB">>]

\* the fields update-career hands to sanitizeText
TextFields ==
    {"jobTitle", "location", "workSetup", "workSetupRemarks", "country", "province",
     "employmentType"}

\* a copy of the request data that keeps _id
dataUpdates_keepsId(requestData) ==
    [k \in DOMAIN requestData.o \cup {"updatedAt"} |->
        IF k = "updatedAt" THEN NewDate ELSE requestData.o[k]]

\* let dataUpdates = { ...requestData }; delete dataUpdates._id; each of the ten
\* fields, if truthy, replaced by its sanitized value; dataUpdates.updatedAt =
\* new Date()
dataUpdates(requestData) ==
    [k \in (DOMAIN requestData.o \ {"_id"}) \cup {"updatedAt"} |->
        IF k = "updatedAt" THEN NewDate
        ELSE LET value == requestData.o[k]
             IN  IF ~truthy(value) THEN value
                 ELSE IF k \in TextFields THEN sanitizeText(value)
                 ELSE IF k = "description" THEN sanitizeHTML(value)
                 ELSE IF k \in {"questions", "screeningSetting"}
                 THEN sanitizeObject(value, IF k = "questions" THEN HtmlFields({"description"})
                                                               ELSE Omitted)
                 ELSE value]

\* updateOne({ _id: id }, { $set: set }) on a collection: the document with that
\* _id, if there is one, takes the properties of set
updateOne(collection, id, set) ==
    {IF getProperty(d, "_id") = id
     THEN Obj([k \in DOMAIN d.o \cup DOMAIN set |-> IF k \in DOMAIN set THEN set[k] ELSE d.o[k]])
     ELSE d : d \in collection}

\* what a request has become with a response, or with the next await
handled(r, at, local, response, steps) ==
    [requests EXCEPT ![r] = [@ EXCEPT !.at = at, !.local = local, !.response = response,
                                      !.trace = @ \o steps]]

\* the request bodies
PlainXSS == <<"X", "S", "S">>

EmptyBold == <<"<", "b", ">", "<", "/", "b", ">">>

HandlerText == <<"o", "n", "x", "=", "1">>

Inactive == <<"i", "n", "a", "c", "t", "i", "v", "e">>

NestedStructure ==
    Arr(<<Obj([description |-> Str(DocHtmlExample), title |-> Str(DocScriptXSS)]),
          Str(DocScriptXSS)>>)

BaseCareer ==
    [jobTitle |-> Str(PlainXSS), description |-> Str(DocSafeHTML), location |-> Str(TestRemote),
     workSetup |-> Str(PlainXSS), orgID |-> Str(OrgA)]

AddCareerBodies ==
    {Obj(BaseCareer),
     Null,
     Obj([k \in DOMAIN BaseCareer \ {"jobTitle"} |-> BaseCareer[k]]),
     Obj([BaseCareer EXCEPT !.jobTitle = Str(DocScriptXSS)]),
     Obj([BaseCareer EXCEPT !.jobTitle = Str(EmptyBold)]),
     Obj([BaseCareer EXCEPT !.workSetup = Str(DocScriptXSS)]),
     Obj([BaseCareer EXCEPT !.orgID = Str(OrgB)]),
     Obj([BaseCareer EXCEPT !.orgID = Str(UnknownOrg)]),
     Obj([BaseCareer EXCEPT !.orgID = Str(PlainXSS)]),
     Obj([status |-> Str(Inactive)] @@ BaseCareer),
     Obj([workSetupRemarks |-> Str(HandlerText), country |-> Str(DocScriptXSS),
          province |-> Str(DocScriptXSS), employmentType |-> Str(DocScriptXSS)] @@ BaseCareer),
     Obj([questions |-> NestedStructure,
          screeningSetting |-> Obj([description |-> Str(DocHtmlExample)])] @@ BaseCareer)}

UpdateCareerBodies ==
    {Null,
     Obj([jobTitle |-> Str(PlainXSS)]),
     Obj([_id |-> Str(InsertedIds[1]), jobTitle |-> Str(PlainXSS)]),
     Obj([_id |-> Str(InsertedIds[1]), jobTitle |-> Str(DocScriptXSS)]),
     Obj([_id |-> Str(InsertedIds[1]), jobTitle |-> Str(EmptyBold)]),
     Obj([_id |-> Str(InsertedIds[1]), jobTitle |-> Str(<<>>)]),
     Obj([_id |-> Str(InsertedIds[1]), workSetup |-> Str(DocScriptXSS)]),
     Obj([_id |-> Str(InsertedIds[1]), lastEditedBy |-> Str(DocScriptXSS)]),
     Obj([_id |-> Str(InsertedIds[1]), questions |-> NestedStructure,
          screeningSetting |-> Obj([description |-> Str(DocHtmlExample)])]),
     Obj([_id |-> Str(PlainXSS), jobTitle |-> Str(PlainXSS)])}

\* request r has come in on a route and has run to its response or to the await
\* named
Received(r, route, body, await, done) ==
    /\ requests' = [requests EXCEPT ![r] =
           [route |-> route, body |-> body,
            at |-> IF done.response = Undefined THEN await ELSE "responded",
            local |-> done.local, response |-> done.response, trace |-> done.trace]]
    /\ console' = [console EXCEPT ![r] = @ \o done.console]

\* request.json() of an add-career request resolves: validation, detection,
\* sanitization and the check of the sanitized fields
AddCareerReceive(r) ==
    /\ requests[r].route = "none"
    /\ \E rawData \in AddCareerBodies :
          Received(r, "add-career", rawData, "aggregate", addCareerReceived(rawData))
    /\ UNCHANGED <<careers, writes, callVars, runVars>>

\* the organization is looked up
AddCareerAggregate(r) ==
    /\ requests[r].at = "aggregate"
    /\ LET orgID == requests[r].local.fields.orgID
           orgDetails == aggregate(ObjectId(orgID))
       IN  IF ~isValidObjectId(orgID)
           THEN /\ requests' = handled(r, "responded", requests[r].local,
                                       caught(AddCareerTexts).response, <<>>)
                /\ console' = [console EXCEPT ![r] = @ \o caught(AddCareerTexts).console]
           ELSE IF Len(orgDetails) = 0
           THEN /\ requests' = handled(r, "responded", requests[r].local,
                                       Response(404, [error |-> Str(AddCareerTexts.notFound)]),
                                       <<"aggregate">>)
                /\ UNCHANGED console
           ELSE /\ requests' = handled(r, "countDocuments",
                                       [requests[r].local EXCEPT !.orgDetails = orgDetails],
                                       Undefined, <<"aggregate">>)
                /\ UNCHANGED console
    /\ UNCHANGED <<careers, writes, callVars, runVars>>

\* the active careers of the organization are counted and compared with its job
\* slots
AddCareerCountDocuments(r) ==
    /\ requests[r].at = "countDocuments"
    /\ LET local == requests[r].local
           totalActiveCareers == countDocuments(careers, local.fields.orgID)
       IN  IF totalActiveCareers >= jobSlots(local.orgDetails[1])
           THEN requests' = handled(r, "responded",
                                    [local EXCEPT !.totalActiveCareers = totalActiveCareers],
                                    Response(400, [error |-> Str(AddCareerTexts.maximum)]),
                                    <<"countDocuments">>)
           ELSE requests' = handled(r, "insertOne",
                                    [local EXCEPT !.totalActiveCareers = totalActiveCareers],
                                    Undefined, <<"countDocuments">>)
    /\ UNCHANGED <<careers, console, writes, callVars, runVars>>

\* the career object is made and inserted; the database gives it its _id
AddCareerInsertOne(r) ==
    /\ requests[r].at = "insertOne"
    /\ LET made == career(requests[r].local.fields, requests[r].body, r)
           inserted == Obj([_id |-> ObjectId(Str(InsertedIds[Cardinality(careers) + 1]))] @@ made.o)
       IN  /\ careers' = careers \cup {inserted}
           /\ writes' = [writes EXCEPT ![r] = Append(@, [op |-> "insertOne", document |-> inserted])]
           /\ requests' = handled(r, "responded", requests[r].local,
                                  Response(200, [message |-> Str(AddCareerTexts.added),
                                                 career |-> inserted]),
                                  <<"insertOne">>)
    /\ UNCHANGED <<console, callVars, runVars>>

\* request.json() of an update-career request resolves: the _id check and detection
UpdateCareerReceive(r) ==
    /\ requests[r].route = "none"
    /\ \E requestData \in UpdateCareerBodies :
          Received(r, "update-career", requestData, "updateOne", updateCareerReceived(requestData))
    /\ UNCHANGED <<careers, writes, callVars, runVars>>

\* update-career from the copy of the request data to its response, with the
\* sanitized copy: new ObjectId(_id) may raise, otherwise updateOne is issued
updateCareerWritten(r, _id, set) ==
    IF ~isValidObjectId(_id)
    THEN /\ requests' = handled(r, "responded", set, caught(UpdateCareerTexts).response,
                                <<"sanitize">>)
         /\ console' = [console EXCEPT ![r] = @ \o caught(UpdateCareerTexts).console]
         /\ UNCHANGED <<careers, writes>>
    ELSE /\ careers' = updateOne(careers, ObjectId(_id), set)
         /\ writes' = [writes EXCEPT ![r] =
                Append(@, [op |-> "updateOne", filter |-> ObjectId(_id), set |-> set])]
         /\ requests' = handled(r, "responded", set,
                                Response(200, [message |-> Str(UpdateCareerTexts.updated),
                                               career |-> Obj(set)]),
                                <<"sanitize", "updateOne">>)
         /\ UNCHANGED console

\* the copy of the request data is sanitized and written with updateOne
UpdateCareerUpdateOne(r) ==
    /\ requests[r].at = "updateOne"
    /\ updateCareerWritten(r, getProperty(requests[r].body, "_id"), dataUpdates(requests[r].body))
    /\ UNCHANGED <<callVars, runVars>>

NextHandlers ==
    \/ \E r \in Requests : AddCareerReceive(r)
    \/ \E r \in Requests : AddCareerAggregate(r)
    \/ \E r \in Requests : AddCareerCountDocuments(r)
    \/ \E r \in Requests : AddCareerInsertOne(r)
    \/ \E r \in Requests : UpdateCareerReceive(r)
    \/ \E r \in Requests : UpdateCareerUpdateOne(r)

SpecHandlers == InitRun /\ [][NextHandlers]_vars

(***************************************************************************)
(* The claims.                                                             *)
(***************************************************************************)
\* the value is an array or a non-null object
IsContainer(v) == v.t \in {"array", "object"}

\* a string has the character
HasChar(s, c) == \E i \in 1..Len(s) : s[i] = c

\* C1: every string leaf of sanitizeObject(v, F) is the sanitized form of the leaf
\* at the same place of v, the string elements of arrays included: a string under
\* a key is sanitized in the key's mode, a string element of an array in one of
\* the two modes.
RECURSIVE C1_LeavesSanitized(_, _, _)
C1_LeavesSanitized(in, out, names) ==
    CASE in.t = "array" ->
           /\ out.t = "array"
           /\ Len(out.a) = Len(in.a)
           /\ \A i \in 1..Len(in.a) :
                 /\ in.a[i].t = "string" =>
                       out.a[i] \in {sanitizeText(in.a[i]), sanitizeHTML(in.a[i])}
                 /\ IsContainer(in.a[i]) => C1_LeavesSanitized(in.a[i], out.a[i], names)
      [] in.t = "object" ->
           /\ out.t = "object"
           /\ \A k \in Keys :
                 out.o[k] # Absent =>
                    /\ in.o[k].t = "string" =>
                          out.o[k] = IF k \in names THEN sanitizeHTML(in.o[k])
                                                    ELSE sanitizeText(in.o[k])
                    /\ IsContainer(in.o[k]) => C1_LeavesSanitized(in.o[k], out.o[k], names)
      [] OTHER -> TRUE

C1_EveryStringLeafSanitized ==
    Returned("sanitizeObject") =>
        C1_LeavesSanitized(arg, ret, IF fields.given THEN fields.names ELSE {})

\* C2: sanitizeObject preserves structure: the result has the keys, the array
\* lengths and the element order of the input, every leaf that is not a string is
\* the input's, and an input that is not an object or an array comes back as it is.
RECURSIVE C2_SameShape(_, _)
C2_SameShape(in, out) ==
    CASE in.t = "array" ->
           /\ out.t = "array"
           /\ Len(out.a) = Len(in.a)
           /\ \A i \in 1..Len(in.a) : C2_SameShape(in.a[i], out.a[i])
      [] in.t = "object" ->
           /\ out.t = "object"
           /\ \A k \in Keys :
                 /\ (in.o[k] = Absent) <=> (out.o[k] = Absent)
                 /\ in.o[k] # Absent /\ out.o[k] # Absent => C2_SameShape(in.o[k], out.o[k])
      [] in.t = "string" -> out.t = "string"
      [] OTHER -> out = in

C2_StructurePreserved ==
    Returned("sanitizeObject") =>
        /\ C2_SameShape(arg, ret)
        /\ ~IsContainer(arg) => ret = arg

\* C3: at every depth, a string under key k of the input is sanitized as HTML when
\* k is in F and as plain text when it is not; F is the same set at every depth,
\* and an omitted F is the empty set.
RECURSIVE C3_ModeOfKey(_, _, _)
C3_ModeOfKey(in, out, names) ==
    CASE in.t = "array" ->
           /\ out.t = "array"
           /\ Len(out.a) = Len(in.a)
           /\ \A i \in 1..Len(in.a) : C3_ModeOfKey(in.a[i], out.a[i], names)
      [] in.t = "object" ->
           /\ out.t = "object"
           /\ \A k \in Keys :
                 out.o[k] # Absent =>
                    /\ in.o[k].t = "string" /\ k \in names => out.o[k] = sanitizeHTML(in.o[k])
                    /\ in.o[k].t = "string" /\ k \notin names => out.o[k] = sanitizeText(in.o[k])
                    /\ IsContainer(in.o[k]) => C3_ModeOfKey(in.o[k], out.o[k], names)
      [] OTHER -> TRUE

C3_ModeByKeyAtEveryDepth ==
    Returned("sanitizeObject") =>
        C3_ModeOfKey(arg, ret, IF fields.given THEN fields.names ELSE {})

\* C3 witness: a string under "description" one level down, F = {description}, came
\* back as sanitizeHTML leaves it, not as sanitizeText would
C3_NestedHtmlField ==
    /\ Returned("sanitizeObject")
    /\ fields = HtmlFields({"description"})
    /\ arg = ObjectOf("items" :> ObjectOf("description" :> Str(DocSafeHTML)))
    /\ ret = ObjectOf("items" :> ObjectOf("description" :> Str(DocSafeHTML)))
    /\ sanitizeText(Str(DocSafeHTML)) # Str(DocSafeHTML)

\* C4: what sanitizeText returns has no "<", no ">" and no null byte.
C4_NoAngleBracketsNoNul ==
    Returned("sanitizeText") =>
        /\ ret.t = "string"
        /\ \A i \in 1..Len(ret.s) : ret.s[i] \notin {"<", ">", NUL}

\* C4 witness: the input had all three characters and something was returned
C4_BracketsAndNulCameIn ==
    /\ Returned("sanitizeText")
    /\ ~chained
    /\ arg.t = "string"
    /\ HasChar(arg.s, "<") /\ HasChar(arg.s, ">") /\ HasChar(arg.s, NUL)
    /\ ret.s # <<>>

\* each character of s replaced by its entry of the table, when it has one
RECURSIVE EscapeEach(_, _)
EscapeEach(s, table) ==
    IF s = <<>> THEN <<>>
    ELSE (IF Head(s) \in DOMAIN table THEN table[Head(s)] ELSE <<Head(s)>>)
         \o EscapeEach(Tail(s), table)

AmpersandEntity == "&" :> <<"&", "a", "m", "p", ";">>

\* C5 as the specification states it: sanitizeText(sanitizeText(s)) = sanitizeText(s).
C5_Idempotent ==
    Returned("sanitizeText") /\ chained => ret = arg

\* C5: the second application turns every "&" of the first result into "&amp;"
\* and changes nothing else, so sanitizeText(sanitizeText(s)) = sanitizeText(s)
\* exactly when sanitizeText(s) has no "&".
C5_SecondPassEscapesAmpersands ==
    Returned("sanitizeText") /\ chained =>
        /\ ret = Str(EscapeEach(arg.s, AmpersandEntity))
        /\ (ret = arg) <=> ~HasChar(arg.s, "&")

\* C5 witness: a second application that changed the string
C5_SecondPassChanged ==
    /\ Returned("sanitizeText")
    /\ chained
    /\ ret # arg

\* the characters of s outside every tag: a character is in a tag when a "<" at
\* or before it has no ">" between and a ">" is at or after it
RemoveTags(s) ==
    LET inTag(i) == /\ \E j \in 1..i : s[j] = "<" /\ \A m \in j..(i - 1) : s[m] # ">"
                    /\ \E k \in i..Len(s) : s[k] = ">"
        kept == {i \in 1..Len(s) : ~inTag(i)}
        nth(n) == CHOOSE i \in kept : Cardinality({j \in kept : j <= i}) = n
    IN  [n \in 1..Cardinality(kept) |-> s[nth(n)]]

DeleteNul(s) == SelectSeq(s, LAMBDA c : c # NUL)

\* s from its first to its last character that is not white space
TrimEnds(s) ==
    LET solid == {i \in 1..Len(s) : s[i] \notin WhiteSpace}
    IN  IF solid = {} THEN <<>>
        ELSE SubSeq(s, CHOOSE i \in solid : \A j \in solid : i <= j,
                       CHOOSE i \in solid : \A j \in solid : j <= i)

\* the six characters the specification names
SixEntities ==
    "&" :> <<"&", "a", "m", "p", ";">>
    @@ "<" :> <<"&", "l", "t", ";">>
    @@ ">" :> <<"&", "g", "t", ";">>
    @@ "\"" :> <<"&", "q", "u", "o", "t", ";">>
    @@ "'" :> <<"&", "#", "x", "2", "7", ";">>
    @@ "/" :> <<"&", "#", "x", "2", "F", ";">>

\* the six and the two more that validator.escape replaces
EightEntities ==
    SixEntities
    @@ "\\" :> <<"&", "#", "x", "5", "C", ";">>
    @@ Grave :> <<"&", "#", "9", "6", ";">>

\* C6 as the specification states it: tags removed, then exactly & < > " ' /
\* escaped, then null bytes removed, then the ends trimmed.
C6_FourStepsSixCharacters ==
    Returned("sanitizeText") /\ arg.t = "string" =>
        ret = Str(TrimEnds(DeleteNul(EscapeEach(RemoveTags(arg.s), SixEntities))))

\* C6: sanitizeText is four steps in this order: every tag removed, then each of
\* & < > " ' / \ and the backtick replaced by its entity, then the null bytes
\* removed, then the white space at both ends removed.
C6_FourStepsEightCharacters ==
    Returned("sanitizeText") /\ arg.t = "string" =>
        ret = Str(TrimEnds(DeleteNul(EscapeEach(RemoveTags(arg.s), EightEntities))))

\* C6 witness: a backslash between a leading blank and a null byte came back as
\* its entity alone
C6_BackslashEscaped ==
    /\ Returned("sanitizeText")
    /\ arg = Str(<<" ", "\\", NUL>>)
    /\ ret = Str(<<"&", "#", "x", "5", "C", ";">>)

\* C7: sanitizeText('<script>alert("XSS")</script>Hello') is 'Hello', and
\* sanitizeObject({title: '<script>XSS</script>'}, ['description']).title is ''.
C7_DocumentedExamples ==
    /\ Returned("sanitizeText") /\ arg = Str(DocTextExample) =>
          ret = Str(<<"H", "e", "l", "l", "o">>)
    /\ (/\ Returned("sanitizeObject")
        /\ arg = ObjectOf("title" :> Str(DocScriptXSS))
        /\ fields = HtmlFields({"description"})) =>
          ret.o["title"] = Str(<<>>)

\* the trimmed, lower-cased string starts with one of the four schemes
HasDangerousScheme(s) ==
    \E p \in { <<"j", "a", "v", "a", "s", "c", "r", "i", "p", "t", ":">>,
               <<"d", "a", "t", "a", ":">>,
               <<"v", "b", "s", "c", "r", "i", "p", "t", ":">>,
               <<"f", "i", "l", "e", ":">> } :
        startsWith(toLowerCase(trim(s)), p)

\* C8: a string that, trimmed and lower-cased, starts with javascript:, data:,
\* vbscript: or file: makes sanitizeURL return '', whether or not the string would
\* pass the format validation.
C8_DangerousSchemeRejected ==
    Returned("sanitizeURL") /\ arg.t = "string" /\ HasDangerousScheme(arg.s) =>
        ret = Str(<<>>)

\* C8 witness: a string that passes the format validation was rejected for its scheme
C8_RejectedThoughWellFormed ==
    /\ Returned("sanitizeURL")
    /\ arg.t = "string"
    /\ HasDangerousScheme(arg.s)
    /\ validatorIsURL(trim(arg.s))
    /\ ret = Str(<<>>)

\* C9: sanitizeURL(s) is '' or s trimmed; it is not '' only when s trimmed passes
\* isURL; 'https://example.com' comes back as it is and 'not a url' gives ''.
C9_EmptyOrTrimmedValidURL ==
    Returned("sanitizeURL") =>
        /\ ret.t = "string"
        /\ arg.t = "string" => ret.s \in {<<>>, trim(arg.s)}
        /\ ret.s # <<>> => arg.t = "string" /\ validatorIsURL(trim(arg.s))
        /\ arg = Str(TestHttpsUrl) => ret = Str(TestHttpsUrl)
        /\ arg = Str(TestNotAUrl) => ret = Str(<<>>)

\* C9 witness: a URL with white space around it came back trimmed
C9_PaddedURLTrimmed ==
    /\ Returned("sanitizeURL")
    /\ arg.t = "string"
    /\ trim(arg.s) # arg.s
    /\ ret = Str(trim(arg.s))
    /\ ret.s # <<>>

\* the value is null, undefined, '' or not a string
NotANonEmptyString(v) == v.t # "string" \/ v.s = <<>>

\* C10: sanitizeHTML, sanitizeText and sanitizeURL return a string for every
\* argument and never raise, '' for null, undefined, '' and every value that is
\* not a string; detectXSS returns false for those arguments.
C10_TotalOnEveryValue ==
    /\ pc = "returned" /\ op \in {"sanitizeHTML", "sanitizeText", "sanitizeURL"} =>
          /\ ret.t = "string"
          /\ NotANonEmptyString(arg) => ret = Str(<<>>)
    /\ Returned("detectXSS") /\ NotANonEmptyString(arg) => ret = Bool(FALSE)

\* C10 witness: sanitizeText was handed a non-empty array and returned ''
C10_ArrayGivenToSanitizeText ==
    /\ Returned("sanitizeText")
    /\ arg = Arr(<<Str(<<"a">>)>>)
    /\ ret = Str(<<>>)

\* the tags of a serialization, from position i: for each "<" outside a quoted
\* attribute value, the tag's name, whether it is an end tag, the names of its
\* attributes, where it starts and the position after its ">" (0 when the tag is
\* not of the form <name attr="value" ...> or </name>)
RECURSIVE ReadAttrs(_, _, _)
ReadAttrs(s, i, names) ==
    IF i > Len(s) THEN [names |-> names, next |-> 0]
    ELSE IF s[i] = ">" THEN [names |-> names, next |-> i + 1]
    ELSE IF s[i] # " " THEN [names |-> names, next |-> 0]
    ELSE LET eq == indexOfChar(s, "=", i + 1)
             q == IF eq = 0 \/ eq + 2 > Len(s) THEN 0 ELSE indexOfChar(s, "\"", eq + 2)
         IN  IF eq = 0 \/ q = 0 \/ s[eq + 1] # "\"" THEN [names |-> names, next |-> 0]
             ELSE ReadAttrs(s, q + 1, Append(names, SubSeq(s, i + 1, eq - 1)))

RECURSIVE OutputTags(_, _)
OutputTags(s, i) ==
    IF i > Len(s) THEN <<>>
    ELSE IF s[i] # "<" THEN OutputTags(s, i + 1)
    ELSE LET closing == i < Len(s) /\ s[i + 1] = "/"
             from == IF closing THEN i + 2 ELSE i + 1
             e == scanTo(s, from, {" ", ">"})
             attrs == ReadAttrs(s, e, <<>>)
             tag == [name |-> SubSeq(s, from, e - 1), closing |-> closing,
                     attrs |-> attrs.names, at |-> i, next |-> attrs.next]
         IN  <<tag>> \o (IF tag.next = 0 THEN <<>> ELSE OutputTags(s, tag.next))

SignatureTags ==
    { <<"s", "c", "r", "i", "p", "t">>, <<"i", "f", "r", "a", "m", "e">>,
      <<"e", "m", "b", "e", "d">>, <<"o", "b", "j", "e", "c", "t">> }

\* C11 as the specification states it: the result of sanitizeHTML has none of
\* '<script', '<iframe', '<embed', '<object' in any letter case and no
\* 'on<word>=' anywhere, retained text included.
C11_NoSignatureAnywhere ==
    Returned("sanitizeHTML") =>
        /\ \A t \in SignatureTags : ~includes(toLowerCase(ret.s), <<"<">> \o t)
        /\ ~matchesEventHandler(ret.s)

\* C11: every tag in the result of sanitizeHTML is well formed, none is a script,
\* iframe, embed or object tag in any letter case, and none carries an attribute
\* whose name starts with "on"; the guarantee is about tags and attribute names,
\* not about the characters of text or of attribute values.
C11_NoSignatureTagNoHandlerAttribute ==
    Returned("sanitizeHTML") =>
        LET tags == OutputTags(ret.s, 1)
        IN  \A k \in 1..Len(tags) :
               /\ tags[k].next # 0
               /\ toLowerCase(tags[k].name) \notin SignatureTags
               /\ \A a \in 1..Len(tags[k].attrs) :
                     ~startsWith(toLowerCase(tags[k].attrs[a]), <<"o", "n">>)

\* C11 witness: an allowed element came in with a handler attribute and went out
\* without it
C11_HandlerAttributeRemoved ==
    /\ Returned("sanitizeHTML")
    /\ ~chained
    /\ arg = Str(<<"<", "p", " ", "o", "n", "x", "=", "1", ">", "x", "<", "/", "p", ">">>)
    /\ ret = Str(<<"<", "p", ">", "x", "<", "/", "p", ">">>)

\* /^aria-[\-\w]+$/ and the three configured names
IsKeptAttributeName(name) ==
    \/ name \in { <<"h", "r", "e", "f">>, <<"t", "a", "r", "g", "e", "t">>, <<"r", "e", "l">> }
    \/ /\ Len(name) > 5
       /\ SubSeq(name, 1, 5) = <<"a", "r", "i", "a", "-">>

AllowListedTags ==
    { <<"p">>, <<"b", "r">>, <<"s", "t", "r", "o", "n", "g">>, <<"e", "m">>, <<"u">>,
      <<"h", "1">>, <<"h", "2">>, <<"h", "3">>, <<"h", "4">>, <<"h", "5">>, <<"h", "6">>,
      <<"u", "l">>, <<"o", "l">>, <<"l", "i">>, <<"a">>,
      <<"b", "l", "o", "c", "k", "q", "u", "o", "t", "e">>,
      <<"c", "o", "d", "e">>, <<"p", "r", "e">> }

\* the example of C12: '<p>Hello</p>' is in the result, 'alert' and '<script' are not
C12_Example ==
    Returned("sanitizeHTML") /\ ~chained /\ arg = Str(DocHtmlExample) =>
        /\ includes(ret.s, <<"<", "p", ">", "H", "e", "l", "l", "o", "<", "/", "p", ">">>)
        /\ ~includes(ret.s, <<"a", "l", "e", "r", "t">>)
        /\ ~includes(ret.s, <<"<", "s", "c", "r", "i", "p", "t">>)

DropLineFeedAfterPre(s) ==
    LET tags == OutputTags(s, 1)
        dropped == {tags[k].next : k \in {j \in 1..Len(tags) :
                        /\ tags[j].name = <<"p", "r", "e">>
                        /\ ~tags[j].closing
                        /\ tags[j].next # 0
                        /\ tags[j].next <= Len(s)
                        /\ s[tags[j].next] = "\n"}}
        kept == {i \in 1..Len(s) : i \notin dropped}
        nth(n) == CHOOSE i \in kept : Cardinality({j \in kept : j <= i}) = n
    IN  [n \in 1..Cardinality(kept) |-> s[nth(n)]]

Field(key) == IF arg.t = "object" /\ key \in DOMAIN arg.o THEN arg.o[key] ELSE Absent

\* the field is absent or is not a string
AbsentOrNotString(key) == Field(key).t # "string"

\* the field is a string with at least one character
NonEmptyString(key) == Field(key).t = "string" /\ Field(key).s # <<>>

\* the call was rejected with a message that has the words
RejectedWith(words) ==
    /\ ret.t = "result"
    /\ ~ret.isValid
    /\ ret.error.t = "string"
    /\ includes(ret.error.s, words)

RequiredFieldsPass ==
    /\ NonEmptyString("jobTitle")
    /\ NonEmptyString("description")
    /\ NonEmptyString("location")
    /\ NonEmptyString("workSetup")

QuestionsIsTruthyNonArray ==
    Field("questions").t \in {"string", "number", "boolean", "object"} /\ truthy(Field("questions"))

\* C14: the checks run in the order jobTitle, description, location, workSetup,
\* then jobTitle length, description length, questions; the first that fails
\* decides the error whatever the values checked later are; the result has an
\* error message exactly when it is invalid, and the message names the field.
C14_FirstFailingCheckDecides ==
    Returned("validateCareerData") /\ arg.t = "object" =>
        /\ ret.t = "result"
        /\ ret.isValid <=> ret.error = Absent
        /\ AbsentOrNotString("jobTitle") => RejectedWith(<<"J", "o", "b", " ", "t", "i", "t", "l", "e">>)
        /\ NonEmptyString("jobTitle") /\ AbsentOrNotString("description") =>
              RejectedWith(<<"D", "e", "s", "c", "r", "i", "p", "t", "i", "o", "n">>)
        /\ (/\ NonEmptyString("jobTitle") /\ NonEmptyString("description")
            /\ AbsentOrNotString("location")) => RejectedWith(<<"L", "o", "c", "a", "t", "i", "o", "n">>)
        /\ (/\ NonEmptyString("jobTitle") /\ NonEmptyString("description")
            /\ NonEmptyString("location") /\ AbsentOrNotString("workSetup")) =>
              RejectedWith(<<"W", "o", "r", "k", " ", "s", "e", "t", "u", "p">>)
        /\ RequiredFieldsPass /\ Len(Field("jobTitle").s) > 200 => RejectedWith(<<"J", "o", "b", " ", "t", "i", "t", "l", "e">>)
        /\ (/\ RequiredFieldsPass /\ Len(Field("jobTitle").s) <= 200
            /\ Len(Field("description").s) > 10000) => RejectedWith(<<"D", "e", "s", "c", "r", "i", "p", "t", "i", "o", "n">>)
        /\ (/\ RequiredFieldsPass /\ Len(Field("jobTitle").s) <= 200
            /\ Len(Field("description").s) <= 10000
            /\ QuestionsIsTruthyNonArray) => RejectedWith(<<"Q", "u", "e", "s", "t", "i", "o", "n", "s">>)

\* C14 witness: a record without jobTitle whose description, location, length of
\* description and questions would each fail too was rejected for the job title
C14_JobTitleReportedFirst ==
    /\ Returned("validateCareerData")
    /\ arg.t = "object"
    /\ Field("jobTitle") = Absent
    /\ Field("description") = Num(42)
    /\ Field("location") = Absent
    /\ Field("questions") = Str(TestNotAnArray)
    /\ RejectedWith(<<"J", "o", "b", " ", "t", "i", "t", "l", "e">>)

\* C15: with the four required fields passing, a jobTitle of up to 200 characters
\* is accepted and one of 201 or more rejected with '200 characters'; a
\* description of up to 10000 is accepted and one of 10001 or more rejected; the
\* length is that of the string as it came in, not of its sanitized form.
C15_LengthLimitsOnRawInput ==
    Returned("validateCareerData") /\ arg.t = "object" /\ RequiredFieldsPass =>
        /\ Len(Field("jobTitle").s) >= 201 => RejectedWith(<<"2", "0", "0", " ", "c", "h", "a", "r", "a", "c", "t", "e", "r", "s">>)
        /\ Len(Field("jobTitle").s) <= 200 => ~RejectedWith(<<"2", "0", "0", " ", "c", "h", "a", "r", "a", "c", "t", "e", "r", "s">>)
        /\ Len(Field("jobTitle").s) <= 200 /\ Len(Field("description").s) >= 10001 =>
              RejectedWith(<<"1", "0", "0", "0", "0", " ", "c", "h", "a", "r", "a", "c", "t", "e", "r", "s">>)
        /\ Len(Field("description").s) <= 10000 => ~RejectedWith(<<"1", "0", "0", "0", "0", " ", "c", "h", "a", "r", "a", "c", "t", "e", "r", "s">>)
        /\ (/\ Len(Field("jobTitle").s) <= 200 /\ Len(Field("description").s) <= 10000
            /\ ~QuestionsIsTruthyNonArray) => ret.isValid

\* C15 witness: a job title of 201 characters was rejected though it has fewer
\* than 200 once its tag is taken out
C15_RawLengthCounted ==
    /\ Returned("validateCareerData")
    /\ arg.t = "object"
    /\ RequiredFieldsPass
    /\ Len(Field("jobTitle").s) = 201
    /\ startsWith(Field("jobTitle").s, <<"<", "b", ">">>)
    /\ Len(SelectSeq(Field("jobTitle").s, LAMBDA c : c \notin {"<", "b", ">"})) < 200
    /\ RejectedWith(<<"2", "0", "0", " ", "c", "h", "a", "r", "a", "c", "t", "e", "r", "s">>)

AllFourAreStrings ==
    \A k \in {"jobTitle", "description", "location", "workSetup"} : Field(k).t = "string"

WithinLimits ==
    Len(Field("jobTitle").s) <= 200 /\ Len(Field("description").s) <= 10000

\* C16 as the specification states it: a record whose four required fields are
\* strings of any length within the limits, the empty string included, and whose
\* questions is absent or an array, is valid.
C16_AnyStringPasses ==
    (/\ Returned("validateCareerData") /\ arg.t = "object"
     /\ AllFourAreStrings /\ WithinLimits
     /\ Field("questions") = Absent \/ Field("questions").t = "array") => ret.isValid

\* C16: a record whose four required fields are non-empty strings within the
\* limits and whose questions is absent or an array is valid; an empty string in
\* a required field is rejected like an absent one, with that field's message.
C16_NonEmptyStringsPass ==
    Returned("validateCareerData") /\ arg.t = "object" =>
        /\ (/\ RequiredFieldsPass /\ WithinLimits
            /\ Field("questions") = Absent \/ Field("questions").t = "array") => ret.isValid
        /\ Field("jobTitle") = Str(<<>>) => RejectedWith(<<"J", "o", "b", " ", "t", "i", "t", "l", "e", " ", "i", "s", " ", "r", "e", "q", "u", "i", "r", "e", "d">>)
        /\ NonEmptyString("jobTitle") /\ Field("description") = Str(<<>>) =>
              RejectedWith(<<"D", "e", "s", "c", "r", "i", "p", "t", "i", "o", "n", " ", "i", "s", " ", "r", "e", "q", "u", "i", "r", "e", "d">>)

\* C16 witness: an empty job title in an otherwise valid record was rejected
C16_EmptyJobTitleRejected ==
    /\ Returned("validateCareerData")
    /\ arg = CareerData(Str(<<>>), Str(TestDescription), Str(TestRemote), Str(TestRemote), Arr(<<>>))
    /\ RejectedWith(<<"J", "o", "b", " ", "t", "i", "t", "l", "e", " ", "i", "s", " ", "r", "e", "q", "u", "i", "r", "e", "d">>)

\* C17: when questions is present and is not an array (a string, a number, 0
\* included, a boolean, false included, the empty string, an object) and the
\* required-field and length checks pass, the result is invalid with an error
\* that has the word 'array'.
C17_NonArrayQuestionsRejected ==
    (/\ Returned("validateCareerData") /\ arg.t = "object"
     /\ RequiredFieldsPass /\ WithinLimits
     /\ Field("questions").t \in {"string", "number", "boolean", "object"}) =>
        RejectedWith(<<"a", "r", "r", "a", "y">>)

\* C18: validateCareerData returns a result for every value it is handed, null,
\* undefined and values that are not objects included; it never raises.
C18_AlwaysAResult ==
    Returned("validateCareerData") => ret.t = "result"

\* the letters of p, in any case, are in s from position i on
FoundAt(s, i, p) ==
    /\ i + Len(p) - 1 <= Len(s)
    /\ toLowerCase(SubSeq(s, i, i + Len(p) - 1)) = p

\* a '<script ...>' opening tag followed on the same line by '</script>'
ScriptSignature(s) ==
    \E i \in 1..Len(s) :
       /\ FoundAt(s, i, <<"<", "s", "c", "r", "i", "p", "t">>)
       /\ \E g \in (i + 7)..Len(s) :
             /\ s[g] = ">"
             /\ \A m \in (i + 7)..(g - 1) : s[m] # ">"
             /\ \E j \in (g + 1)..Len(s) :
                   /\ FoundAt(s, j, <<"<", "/", "s", "c", "r", "i", "p", "t", ">">>)
                   /\ \A m \in (g + 1)..(j - 1) : s[m] \notin {"\n", "\r"}

\* 'on', one or more word characters, optional white space, '='
HandlerSignature(s) ==
    \E i \in 1..Len(s) :
       /\ FoundAt(s, i, <<"o", "n">>)
       /\ \E e \in (i + 3)..Len(s) :
             /\ s[e] = "="
             /\ \E w \in (i + 2)..(e - 1) :
                   /\ \A m \in (i + 2)..w : IsWordChar(s[m])
                   /\ \A m \in (w + 1)..(e - 1) : s[m] \in WhiteSpace

LiteralSignatures ==
    { <<"j", "a", "v", "a", "s", "c", "r", "i", "p", "t", ":">>, <<"<", "i", "f", "r", "a", "m", "e">>, <<"e", "v", "a", "l", "(">>, <<"e", "x", "p", "r", "e", "s", "s", "i", "o", "n", "(">>, <<"<", "e", "m", "b", "e", "d">>, <<"<", "o", "b", "j", "e", "c", "t">> }

MatchesASignature(s) ==
    \/ ScriptSignature(s)
    \/ HandlerSignature(s)
    \/ \E p \in LiteralSignatures : \E i \in 1..Len(s) : FoundAt(s, i, p)

\* C19: for a non-empty string s, detectXSS(s) is true exactly when s matches one
\* of the eight signatures, in any letter case; '<img onerror="alert(1)">' gives
\* true and 'This is safe content' gives false.
C19_TrueExactlyOnSignature ==
    Returned("detectXSS") /\ arg.t = "string" /\ arg.s # <<>> =>
        /\ ret \in {Bool(TRUE), Bool(FALSE)}
        /\ ret = Bool(TRUE) <=> MatchesASignature(arg.s)
        /\ arg = Str(ImgOnerrorAlert1) => ret = Bool(TRUE)
        /\ arg = Str(TestSafeContent) => ret = Bool(FALSE)

\* C19 witness: the handler example was detected
C19_HandlerDetected ==
    /\ Returned("detectXSS")
    /\ arg = Str(ImgOnerrorAlert1)
    /\ ret = Bool(TRUE)

\* what the named function makes of an argument, by itself
ResultOf(name, a, f) ==
    CASE name = "sanitizeText" -> sanitizeText(a)
      [] name = "sanitizeHTML" -> sanitizeHTML(a)
      [] name = "sanitizeURL" -> sanitizeURL(a)
      [] name = "sanitizeObject" -> sanitizeObject(a, f)
      [] name = "validateCareerData" -> validateCareerData(a)
      [] name = "detectXSS" -> detectXSS(a)

\* C20: in a run of calls of the six functions, a call returns what the same call
\* returned the first time it was made, whatever calls came before or between,
\* and what the function makes of the arguments by itself; detectXSS's global
\* patterns carry no match position from one call to the next.
C20_ResultDependsOnArgumentsOnly ==
    pc = "returned" /\ count > 0 =>
        /\ LastCall \in DOMAIN log
        /\ ret = log[LastCall].first
        /\ ret = ResultOf(op, arg, fields)

\* C20 witness: detectXSS found the script signature a second time, with a call of
\* something else made in the run
C20_RepeatedDetection ==
    /\ pc = "returned"
    /\ count = 3
    /\ op = "detectXSS"
    /\ arg = Str(DocScriptXSS)
    /\ ret = Bool(TRUE)
    /\ log[LastCall].times = 2
    /\ lastIndex[1] = Len(DocScriptXSS)
    /\ Cardinality(DOMAIN log) = 2

\* the steps of a request that come after validation
LaterSteps == {"detectXSS", "sanitize", "connectMongoDB", "aggregate", "countDocuments", "insertOne"}

\* the validator reports the body of request r invalid
ReportedInvalid(r) ==
    /\ requests[r].route = "add-career"
    /\ validateCareerData(requests[r].body) # TypeError
    /\ ~validateCareerData(requests[r].body).isValid

\* C21: when validateCareerData reports the body of an add-career request
\* invalid, the response has status 400 and as its error the validator's
\* message, and the request has made no detection, no sanitization and no
\* database access, has logged nothing and written nothing.
C21_InvalidBodyAnsweredFirst ==
    \A r \in Requests :
        ReportedInvalid(r) =>
            /\ requests[r].at = "responded"
            /\ requests[r].response.status = 400
            /\ requests[r].response.body = [error |-> validateCareerData(requests[r].body).error]
            /\ \A i \in 1..Len(requests[r].trace) : requests[r].trace[i] \notin LaterSteps
            /\ console[r] = <<>>
            /\ writes[r] = <<>>

\* C21 witness: a body without jobTitle was answered with the validator's message
C21_MissingJobTitleAnswered ==
    \E r \in Requests :
        /\ ReportedInvalid(r)
        /\ getProperty(requests[r].body, "jobTitle") = Undefined
        /\ requests[r].response = Response(400, [error |-> Str(JobTitleRequired)])

\* the insertOne and updateOne operations of request r
WritesOf(r, name) == SelectSeq(writes[r], LAMBDA w : w.op = name)

\* the warnings of request r
WarningsOf(r) == SelectSeq(console[r], LAMBDA e : e.level = "warn")

\* a document without the identifiers the handler and the database gave it
WithoutIdentifiers(d) == [k \in DOMAIN d.o \ {"id", "_id"} |-> d.o[k]]

\* the response of request r is the quota rejection
QuotaRejected(r) ==
    /\ requests[r].at = "responded"
    /\ requests[r].response = Response(400, [error |-> Str(AddCareerTexts.maximum)])

\* two add-career requests pass validation, have equal sanitized values, and
\* detection fires on one of them only
AddsDifferInDetectionOnly(a, b) ==
    /\ requests[a].route = "add-career" /\ requests[b].route = "add-career"
    /\ requests[a].body # Null /\ requests[b].body # Null
    /\ validateCareerData(requests[a].body).isValid
    /\ validateCareerData(requests[b].body).isValid
    /\ addCareerFields(requests[a].body) = addCareerFields(requests[b].body)
    /\ xssDetected(requests[a].body) /\ ~xssDetected(requests[b].body)

\* two update-career requests with the same _id have equal sanitized values, and
\* detection fires on one of them only
UpdatesDifferInDetectionOnly(a, b) ==
    /\ requests[a].route = "update-career" /\ requests[b].route = "update-career"
    /\ requests[a].body # Null /\ requests[b].body # Null
    /\ truthy(getProperty(requests[a].body, "_id"))
    /\ getProperty(requests[a].body, "_id") = getProperty(requests[b].body, "_id")
    /\ dataUpdates(requests[a].body) = dataUpdates(requests[b].body)
    /\ xssDetected(requests[a].body) /\ ~xssDetected(requests[b].body)

UserStringFields ==
    {"jobTitle", "description", "location", "workSetup", "workSetupRemarks", "country",
     "province", "employmentType"}

\* request r has come to the detection step
CameToDetection(r) == \E i \in 1..Len(requests[r].trace) : requests[r].trace[i] = "detectXSS"

\* C23: a request on whose jobTitle, description, location, workSetup,
\* workSetupRemarks, country, province or employmentType detectXSS is true has
\* logged a warning once it has come to the detection step.
C23_EveryFieldChecked ==
    \A r \in Requests :
        (/\ CameToDetection(r)
         /\ \E k \in UserStringFields : detectXSS(getProperty(requests[r].body, k)) = Bool(TRUE)) =>
            Len(WarningsOf(r)) >= 1

\* how the claim has a nested value stored: a string under the key description
\* HTML-sanitized, every other string text-sanitized
RECURSIVE C24_StoredAs(_, _, _)
C24_StoredAs(in, out, key) ==
    CASE in.t = "string" ->
           out = IF key = "description" THEN sanitizeHTML(in) ELSE sanitizeText(in)
      [] in.t = "array" ->
           /\ out.t = "array"
           /\ Len(out.a) = Len(in.a)
           /\ \A i \in 1..Len(in.a) : C24_StoredAs(in.a[i], out.a[i], "")
      [] in.t = "object" ->
           /\ out.t = "object"
           /\ DOMAIN out.o = DOMAIN in.o
           /\ \A k \in DOMAIN in.o : C24_StoredAs(in.o[k], out.o[k], k)
      [] OTHER -> out = in

\* what a write operation hands to the database
Written(w) == IF w.op = "insertOne" THEN w.document ELSE Obj(w.set)

\* C24: in what either handler writes, questions and screeningSetting are the
\* request's structures with every string under a key 'description' HTML-sanitized
\* and every other string text-sanitized.
C24_NestedStructuresSanitized ==
    \A r \in Requests : \A i \in 1..Len(writes[r]) : \A k \in {"questions", "screeningSetting"} :
        truthy(getProperty(requests[r].body, k)) =>
            C24_StoredAs(getProperty(requests[r].body, k), getProperty(Written(writes[r][i]), k), "")

\* a stored value is the sanitizeText or sanitizeHTML output of the request's value
\* in every string it holds
RECURSIVE C25_Sanitized(_, _)
C25_Sanitized(in, out) ==
    CASE out.t = "string" -> out \in {sanitizeText(in), sanitizeHTML(in)}
      [] out.t = "array" ->
           /\ in.t = "array"
           /\ Len(out.a) = Len(in.a)
           /\ \A i \in 1..Len(out.a) : C25_Sanitized(in.a[i], out.a[i])
      [] out.t = "object" ->
           /\ in.t = "object"
           /\ \A k \in DOMAIN out.o : k \in DOMAIN in.o /\ C25_Sanitized(in.o[k], out.o[k])
      [] OTHER -> TRUE

\* C25: every string in the $set document of an update-career request, at the top
\* level or nested, is the sanitizeText or sanitizeHTML output of the request's
\* value at the same place, whatever keys the request has.
C25_EveryStoredStringSanitized ==
    \A r \in Requests : \A i \in 1..Len(WritesOf(r, "updateOne")) :
        \A k \in DOMAIN WritesOf(r, "updateOne")[i].set \ {"updatedAt"} :
            C25_Sanitized(getProperty(requests[r].body, k), WritesOf(r, "updateOne")[i].set[k])

\* the four fields a career must have
RequiredFields == {"jobTitle", "description", "location", "workSetup"}

\* all the steps of an add-career request that inserts
StepsToInsert ==
    <<"validateCareerData", "detectXSS", "sanitize", "connectMongoDB", "aggregate",
      "countDocuments", "insertOne">>

\* C26: an add-career request inserts at most once and writes nothing else; it
\* inserts only after validation passed, the sanitized jobTitle, description,
\* location and workSetup were non-empty, the organization was found and the
\* count was below the job slots; a request answered 400, 404 or 500 has inserted
\* nothing; the inserted jobTitle, location and workSetup are the sanitizeText
\* outputs and the description the sanitizeHTML output of the request's values;
\* a jobTitle of '<b></b>' passes validation and is answered 400.
C26_OneInsertOnTheCheckedPath ==
    \A r \in Requests :
        requests[r].route = "add-career" =>
            LET q == requests[r]
                inserts == WritesOf(r, "insertOne")
            IN  /\ Len(writes[r]) <= 1
                /\ Len(inserts) = Len(writes[r])
                /\ Len(inserts) = 1 =>
                      /\ q.body # Null
                      /\ validateCareerData(q.body).isValid
                      /\ \A k \in RequiredFields : truthy(getProperty(inserts[1].document, k))
                      /\ aggregate(ObjectId(getProperty(q.body, "orgID"))) # <<>>
                      /\ q.local.totalActiveCareers < jobSlots(q.local.orgDetails[1])
                      /\ q.trace = StepsToInsert
                      /\ q.response.status = 200
                      /\ \A k \in RequiredFields \ {"description"} :
                            getProperty(inserts[1].document, k) = sanitizeText(getProperty(q.body, k))
                      /\ getProperty(inserts[1].document, "description")
                            = sanitizeHTML(getProperty(q.body, "description"))
                /\ (q.at = "responded" /\ q.response.status \in {400, 404, 500}) => writes[r] = <<>>
                /\ (q.body # Null /\ getProperty(q.body, "jobTitle") = Str(EmptyBold)) =>
                      /\ validateCareerData(q.body).isValid
                      /\ q.response = Response(400, [error |-> Str(AddCareerTexts.required)])

\* C26 witness: one request with the job title '<b></b>' was answered 400 after
\* sanitization, another one inserted its career
C26_EmptyAfterSanitizationRejected ==
    \E a, b \in Requests :
        /\ requests[a].route = "add-career"
        /\ requests[a].at = "responded" /\ requests[b].at = "responded"
        /\ getProperty(requests[a].body, "jobTitle") = Str(EmptyBold)
        /\ requests[a].response.status = 400
        /\ requests[a].trace = <<"validateCareerData", "detectXSS", "sanitize">>
        /\ Len(WritesOf(b, "insertOne")) = 1
        /\ requests[b].response.status = 200

\* the organization identifiers of the stored organizations
StoredOrgs == {OrgA, OrgB}

\* C27: the active careers stored for an organization are never more than its
\* plan's jobLimit plus its extraJobSlots (0 when absent), and a request that
\* counted as many active careers as that is answered 400 and inserts nothing.
C27_ActiveCareersWithinJobSlots ==
    /\ \A o \in StoredOrgs :
          countDocuments(careers, Str(o)) <= jobSlots(aggregate(ObjectId(Str(o)))[1])
    /\ \A r \in Requests :
          (/\ requests[r].route = "add-career"
           /\ requests[r].at = "responded"
           /\ \E i \in 1..Len(requests[r].trace) : requests[r].trace[i] = "countDocuments"
           /\ requests[r].local.totalActiveCareers >= jobSlots(requests[r].local.orgDetails[1])) =>
              /\ requests[r].response.status = 400
              /\ writes[r] = <<>>

\* C28: every stored career has a non-empty string as its jobTitle, description,
\* location and workSetup, after any requests to the two handlers.
C28_StoredRequiredFieldsNonEmpty ==
    \A d \in careers : \A k \in RequiredFields :
        getProperty(d, k).t = "string" /\ getProperty(d, k).s # <<>>

\* the $set document of an update has every key of the request but _id, and
\* updatedAt as the handler set it
SetMirrorsRequest(set, body) ==
    /\ "_id" \notin DOMAIN set
    /\ "updatedAt" \in DOMAIN set
    /\ set["updatedAt"] = NewDate
    /\ \A k \in DOMAIN body.o \ {"_id"} : k \in DOMAIN set

\* C29: an update-career request without an _id is answered 400 and writes
\* nothing; a request with an _id issues exactly one updateOne, on the document
\* with that _id, whose $set has no _id, has updatedAt and has every other key of
\* the request.
C29_OneUpdateForEveryId ==
    \A r \in Requests :
        (requests[r].route = "update-career" /\ requests[r].at = "responded") =>
            IF ~truthy(getProperty(requests[r].body, "_id"))
            THEN requests[r].response.status = 400 /\ writes[r] = <<>>
            ELSE /\ Len(writes[r]) = 1
                 /\ writes[r][1].op = "updateOne"
                 /\ writes[r][1].filter = ObjectId(getProperty(requests[r].body, "_id"))
                 /\ SetMirrorsRequest(writes[r][1].set, requests[r].body)

\* C29, as the handler has it: a request whose body is an object without a truthy
\* _id is answered 400 and writes nothing; a body null or undefined, and an _id
\* that new ObjectId does not accept, are answered 500 and write nothing; a request
\* with an _id that new ObjectId accepts issues exactly one updateOne, on the
\* document with that _id, whose $set has no _id, has updatedAt and has every
\* other key of the request, and is answered 200.
C29_OneUpdateForEveryValidId ==
    \A r \in Requests :
        (requests[r].route = "update-career" /\ requests[r].at = "responded") =>
            LET body == requests[r].body
                _id == getProperty(body, "_id")
            IN  IF body \in {Null, Undefined}
                THEN requests[r].response.status = 500 /\ writes[r] = <<>>
                ELSE IF ~truthy(_id)
                THEN requests[r].response.status = 400 /\ writes[r] = <<>>
                ELSE IF ~isValidObjectId(_id)
                THEN requests[r].response.status = 500 /\ writes[r] = <<>>
                ELSE /\ requests[r].response.status = 200
                     /\ Len(writes[r]) = 1
                     /\ writes[r][1].op = "updateOne"
                     /\ writes[r][1].filter = ObjectId(_id)
                     /\ SetMirrorsRequest(writes[r][1].set, body)

\* C29 witness: an update with the _id of an inserted document issued its one
\* updateOne, and an update with the _id 'XSS' was answered 500 without a write
C29_UpdatedAndRefused ==
    \E a, b \in Requests :
        /\ requests[a].route = "update-career" /\ requests[b].route = "update-career"
        /\ requests[a].at = "responded" /\ requests[b].at = "responded"
        /\ requests[a].response.status = 200
        /\ Len(WritesOf(a, "updateOne")) = 1
        /\ WritesOf(a, "updateOne")[1].filter = ObjectId(Str(InsertedIds[1]))
        /\ getProperty(requests[b].body, "_id") = Str(PlainXSS)
        /\ requests[b].response.status = 500
        /\ writes[b] = <<>>

====
